---- MODULE Spec2Model ----
(***************************************************************************)
(* Request lifecycle of the Ripht PHP SAPI (src/src/sapi/executor.rs,      *)
(* callbacks.rs, server_context.rs, mod.rs; src/src/execution/*.rs).       *)
(*                                                                         *)
(* The executor is single-threaded.  A step of the model is one stretch of *)
(* executor code between two calls into foreign code: a user hook (which   *)
(* may panic) or an engine primitive (which may call back into the SAPI    *)
(* callbacks before it returns).  pc names the foreign call in progress.   *)
(*                                                                         *)
(* The embedded engine is not part of the repository; its primitives are   *)
(* modelled at their call sites as an environment that may invoke the      *)
(* registered callbacks while a primitive runs.                            *)
(***************************************************************************)
EXTENDS Integers, Sequences, FiniteSets, TLC

\* ---------------------------------------------------------------- bounds
MaxRequests == 2      \* execute calls in one behaviour
MaxThreads == 3       \* threads that call RiphtSapi::init
MaxInitCalls == 2     \* init calls one thread makes
MaxLiveRequests == 1  \* execute_with_hooks calls followed to their end
MaxThreadRequests == 1 \* execute calls one thread makes on its own handle
MaxShutdowns == 1     \* calls of RiphtSapi::shutdown
MaxLiveCalls == 1     \* engine-side operations during one followed call
MaxCalls == 2         \* engine-side operations during one request

\* ------------------------------------------------------- program constants
NULL == 0
SUCCESS == 0
FAILURE == -1
SAPI_HEADER_SENT_SUCCESSFULLY == 1
SAPI_HEADER_SEND_FAILED == 0
HTTP_STATUS_MIN == 100
HTTP_STATUS_MAX == 599
HTTP_STATUS_FALLBACK == 500
DEFAULT_BUFFER_SIZE == 65536
\* marks a pointer to a string literal of the program (c"GET")
STATIC == -2

\* ------------------------------------------------------------ input sets
\* byte slices the engine hands to the write-output callback
Slices == {<< >>, <<1>>, <<2, 3>>}
\* raw header lines of the engine's header list; "X" is a byte that is not
\* valid UTF-8, " " is ASCII whitespace
RawHeaders == {<<"A", ":", " ", "v">>, <<"A", ":", "w">>, <<"B">>}
\* response codes the engine can hold when the headers are sent: a valid one,
\* one above the range, a negative one and one that does not fit in 16 bits
\* (65736 = 65536 + 200, whose low 16 bits are a valid code)
StatusCodes == {404, 700, -1, 65736}
\* syslog levels passed to the log-message callback
LogLevels == {3, 5}
\* script paths: an existing file, a missing file, a path holding a NUL byte
ScriptPaths == {"valid", "missing", "nul"}
\* per-request ini overrides (values for display_errors)
IniOverrides == {<< >>, <<"0">>}

\* hooks observed while the request is in flight, in call order
LifecycleHooks ==
    {"on_context_created", "on_request_starting", "on_request_started",
     "on_script_executing", "on_script_executed", "on_request_finishing"}
\* hooks invoked while the slot holds the request's context
InstalledHooks == LifecycleHooks \ {"on_context_created"}
\* hooks invoked after request shutdown
ResultHooks ==
    {"on_header", "on_status", "on_php_message", "on_output",
     "on_request_finished"}

\* A hook object: NoOpHooks, or a user type whose behaviour is described by
\* the hook that panics (if any), the header names on_header rejects, the
\* action on_output returns and the answer of is_connection_alive (true by
\* default).
NoOpHooks ==
    [kind |-> "NoOp", panic_at |-> "none", reject |-> {}, on_output |-> "Buffer",
     alive |-> TRUE]
CustomHooks ==
    [kind : {"Custom"}, panic_at : {"none"}, reject : {{}, {<<"A">>}},
     on_output : {"Buffer", "Handled"}, alive : BOOLEAN]
    \cup
    [kind : {"Custom"}, panic_at : LifecycleHooks \cup ResultHooks,
     reject : {{}}, on_output : {"Buffer"}, alive : {TRUE}]

\* ---------------------------------------------------------------- helpers
RECURSIVE Flatten(_)
Flatten(ss) == IF ss = << >> THEN << >> ELSE Head(ss) \o Flatten(Tail(ss))

\* an observable event: a hook invocation or an engine primitive invocation
Ev(ev, a, b, n, d) == [ev |-> ev, a |-> a, b |-> b, n |-> n, d |-> d]
Ev0(ev) == Ev(ev, << >>, << >>, 0, << >>)

\* ------------------------------------------------- execution::header/message
IsWhitespace(c) == c = " "
IsUtf8(bytes) == \A i \in 1..Len(bytes) : bytes[i] # "X"

\* memchr::memchr(b':', bytes): 0-based offset of the first colon, -1 if none
RECURSIVE memchr(_, _, _)
memchr(c, bytes, from) ==
    IF from > Len(bytes) THEN -1
    ELSE IF bytes[from] = c THEN from - 1
    ELSE memchr(c, bytes, from + 1)

RECURSIVE SkipOws(_, _)
SkipOws(bytes, i) ==
    IF i <= Len(bytes) /\ IsWhitespace(bytes[i]) THEN SkipOws(bytes, i + 1) ELSE i

RECURSIVE TrimStart(_)
TrimStart(s) ==
    IF s # << >> /\ IsWhitespace(Head(s)) THEN TrimStart(Tail(s)) ELSE s

RECURSIVE TrimEnd(_)
TrimEnd(s) ==
    IF s # << >> /\ IsWhitespace(s[Len(s)]) THEN TrimEnd(SubSeq(s, 1, Len(s) - 1))
    ELSE s

Trim(s) == TrimEnd(TrimStart(s))

\* String::from_utf8_lossy: every invalid byte becomes U+FFFD ("?")
Utf8Lossy(bytes) == [i \in 1..Len(bytes) |-> IF bytes[i] = "X" THEN "?" ELSE bytes[i]]

\* a parse without the tests for a colon at offset 0 and for a blank name
ResponseHeader_parse_any_name(bytes) ==
    LET colon_pos == memchr(":", bytes, 1) IN
    IF colon_pos = -1 THEN << >>
    ELSE
      LET name_bytes  == SubSeq(bytes, 1, colon_pos)
          value_start == SkipOws(bytes, colon_pos + 2)
          value_bytes == SubSeq(bytes, value_start, Len(bytes))
      IN  IF ~IsUtf8(name_bytes) THEN << >>
          ELSE <<[name |-> Trim(name_bytes), value |-> Utf8Lossy(value_bytes)]>>

\* ResponseHeader::parse: << >> is None, <<h>> is Some(h)
ResponseHeader_parse(bytes) ==
    LET colon_pos == memchr(":", bytes, 1) IN
    IF colon_pos = -1 \/ colon_pos = 0 THEN << >>
    ELSE
      LET name_bytes  == SubSeq(bytes, 1, colon_pos)
          value_start == SkipOws(bytes, colon_pos + 2)
          value_bytes == SubSeq(bytes, value_start, Len(bytes))
      IN  IF ~IsUtf8(name_bytes) THEN << >>
          ELSE IF Trim(name_bytes) = << >> THEN << >>
          ELSE <<[name |-> Trim(name_bytes), value |-> Utf8Lossy(value_bytes)]>>

\* from_raw that sends every value outside 0..7 to debug
SyslogLevel_from_raw_unknown_is_debug(level) ==
    CASE level = 0 -> "emerg"
      [] level = 1 -> "alert"
      [] level = 2 -> "crit"
      [] level = 3 -> "err"
      [] level = 4 -> "warning"
      [] level = 5 -> "notice"
      [] level = 6 -> "info"
      [] OTHER -> "debug"

SyslogLevel_from_raw(level) ==
    CASE level = 0 -> "emerg"
      [] level = 1 -> "alert"
      [] level = 2 -> "crit"
      [] level = 3 -> "err"
      [] level = 4 -> "warning"
      [] level = 5 -> "notice"
      [] level = 6 -> "info"
      [] level = 7 -> "debug"
      [] level < 0 -> "emerg"
      [] OTHER -> "debug"

ExecutionMessage_from_syslog(syslog_level, message) ==
    [level |-> SyslogLevel_from_raw(syslog_level), message |-> message]

\* ----------------------------------------------------- sapi::server_context
\* CString::new fails on a string with an embedded NUL byte; "x0y" is the
\* model's string with one
HasNul(str) == str = "x0y"

\* .filter_map(|(k, v)| Some((CString::new(k).ok()?, CString::new(v).ok()?)))
RECURSIVE CStringPairs(_)
CStringPairs(pairs) ==
    IF pairs = << >> THEN << >>
    ELSE (IF HasNul(Head(pairs).k) \/ HasNul(Head(pairs).v) THEN << >>
          ELSE <<Head(pairs)>>)
         \o CStringPairs(Tail(pairs))

\* the same conversion for the ini overrides, whose key is display_errors
RECURSIVE CStrings(_)
CStrings(values) ==
    IF values = << >> THEN << >>
    ELSE (IF HasNul(Head(values)) THEN << >> ELSE <<Head(values)>>)
         \o CStrings(Tail(values))

\* ServerContext::new followed by From<ExecutionContext>: the context of a
\* request with input body `input`, with or without tracked meta-variables,
\* and with the given ini overrides
ServerContext_from(req) ==
    [status_code      |-> 200,
     env_vars         |-> CStringPairs(req.env),
     post_data        |-> req.input,
     post_position    |-> 0,
     output_buffer    |-> << >>,
     capacity         |-> DEFAULT_BUFFER_SIZE,
     messages         |-> << >>,
     has_vars         |-> req.has_vars,
     server_vars      |-> CStringPairs(req.vars),
     ini_overrides    |-> CStrings(req.ini),
     response_headers |-> << >>,
     output_callback  |-> FALSE,
     callback_panics  |-> FALSE,
     flush_callback   |-> FALSE,
     log_to_stderr    |-> req.log_to_stderr]

\* ServerContext::set_output_callback; `panics` tells whether the closure
\* panics when it is called
set_output_callback(ctx, panics) ==
    [ctx EXCEPT !.output_callback = TRUE, !.callback_panics = panics]

\* Growth::X4 arm of write_output (the default policy)
GrowX4(actual, required) ==
    LET a == actual * 4
        b == required + DEFAULT_BUFFER_SIZE
    IN  IF a >= b THEN a ELSE b

\* write_output that replaces the buffer instead of appending to it
write_output_overwrite(ctx, data) ==
    IF ctx.output_callback
    THEN [ctx |-> ctx, chunks |-> <<data>>, ret |-> Len(data),
          panicked |-> ctx.callback_panics]
    ELSE [ctx |-> [ctx EXCEPT !.output_buffer = data], chunks |-> << >>,
          ret |-> Len(data), panicked |-> FALSE]

\* write_output that hands the callback the slice short of its last byte
write_output_short_chunk(ctx, data) ==
    IF ctx.output_callback
    THEN [ctx |-> ctx, chunks |-> <<SubSeq(data, 1, Len(data) - 1)>>,
          ret |-> Len(data), panicked |-> ctx.callback_panics]
    ELSE [ctx |-> [ctx EXCEPT !.output_buffer = @ \o data], chunks |-> << >>,
          ret |-> Len(data), panicked |-> FALSE]

\* ServerContext::write_output: the context afterwards, the chunk handed to
\* the output callback (<< >> of chunks when none was called), the returned
\* length and whether the call unwound with a panic of the callback
write_output(ctx, data) ==
    IF ctx.output_callback
    THEN [ctx |-> ctx, chunks |-> <<data>>, ret |-> Len(data),
          panicked |-> ctx.callback_panics]
    ELSE
      LET actual_buffer_length   == ctx.capacity
          required_buffer_length == Len(ctx.output_buffer) + Len(data)
          new_cap == IF required_buffer_length > actual_buffer_length
                     THEN GrowX4(actual_buffer_length, required_buffer_length)
                     ELSE actual_buffer_length
      IN  [ctx    |-> [ctx EXCEPT !.capacity = new_cap,
                                  !.output_buffer = @ \o data],
           chunks |-> << >>,
           ret    |-> Len(data),
           panicked |-> FALSE]

\* read_post that leaves the cursor where it was
read_post_no_advance(ctx, count) ==
    LET pos       == ctx.post_position
        remaining == IF Len(ctx.post_data) >= pos THEN Len(ctx.post_data) - pos ELSE 0
        to_copy   == IF remaining < count THEN remaining ELSE count
    IN  [ctx |-> ctx, data |-> SubSeq(ctx.post_data, pos + 1, pos + to_copy),
         ret |-> to_copy]

\* ServerContext::read_post into a buffer of `count` bytes: the context
\* afterwards, the bytes copied into the buffer and the returned length
read_post(ctx, count) ==
    IF count = 0 THEN [ctx |-> ctx, data |-> << >>, ret |-> 0]
    ELSE
      LET pos       == ctx.post_position
          remaining == IF Len(ctx.post_data) >= pos THEN Len(ctx.post_data) - pos ELSE 0
          to_copy   == IF remaining < count THEN remaining ELSE count
      IN  IF to_copy > 0
          THEN [ctx  |-> [ctx EXCEPT !.post_position = pos + to_copy],
                data |-> SubSeq(ctx.post_data, pos + 1, pos + to_copy),
                ret  |-> to_copy]
          ELSE [ctx |-> ctx, data |-> << >>, ret |-> to_copy]

\* get_env that answers with the first override whatever its key
get_env_any_key(ctx, key) ==
    IF ctx.env_vars = << >> THEN << >> ELSE <<ctx.env_vars[1].v>>

\* ServerContext::get_env: << >> is None, <<v>> a pointer to the value v
RECURSIVE FindEnv(_, _)
FindEnv(pairs, key) ==
    IF pairs = << >> THEN << >>
    ELSE IF Head(pairs).k = key THEN <<Head(pairs).v>>
    ELSE FindEnv(Tail(pairs), key)

get_env(ctx, key) == FindEnv(ctx.env_vars, key)

\* add_header that keeps one entry per name: a later header replaces the
\* earlier one of the same name
add_header_dedup(ctx, header) ==
    [ctx EXCEPT !.response_headers =
        IF \E i \in 1..Len(@) : @[i].name = header.name
        THEN [i \in 1..Len(@) |-> IF @[i].name = header.name THEN header ELSE @[i]]
        ELSE Append(@, header)]

\* ServerContext::add_header
add_header(ctx, header) ==
    [ctx EXCEPT !.response_headers = Append(@, header)]

set_status(ctx, code) == [ctx EXCEPT !.status_code = code]

add_message(ctx, message) == [ctx EXCEPT !.messages = Append(@, message)]

\* ServerContext::into_result
into_result(ctx, body) ==
    [status   |-> ctx.status_code,
     headers  |-> ctx.response_headers,
     body     |-> body,
     messages |-> ctx.messages]

ExecutionResult_new(status, body, headers, messages) ==
    [status |-> status, headers |-> headers, body |-> body, messages |-> messages]

\* u8::to_ascii_lowercase on the letters of the model's alphabet
ToAsciiLower(c) ==
    CASE c = "A" -> "a"
      [] c = "B" -> "b"
      [] OTHER -> c

\* str::eq_ignore_ascii_case
EqIgnoreAsciiCase(a, b) ==
    /\ Len(a) = Len(b)
    /\ \A i \in 1..Len(a) : ToAsciiLower(a[i]) = ToAsciiLower(b[i])

\* ExecutionResult::header_vals: the values of the headers called `name`
RECURSIVE header_vals(_, _)
header_vals(headers, name) ==
    IF headers = << >> THEN << >>
    ELSE (IF EqIgnoreAsciiCase(Head(headers).name, name)
          THEN <<Head(headers).value>> ELSE << >>)
         \o header_vals(Tail(headers), name)

content_type_ptr(ctx, id) == IF ctx.has_vars THEN id ELSE NULL
query_string_ptr(ctx, id) == IF ctx.has_vars THEN id ELSE NULL
cookie_data_ptr(ctx, id) == IF ctx.has_vars THEN id ELSE NULL
request_method_ptr(ctx, id) == IF ctx.has_vars THEN id ELSE STATIC

\* --------------------------------------------------------- sapi::callbacks
\* std::panic::catch_unwind(..).unwrap_or(default)
catch_unwind(panicked, value, default) == IF panicked THEN default ELSE value

\* get_context: the slot when it is non-null (pointers handed out by Box are
\* always aligned), NULL for None
get_context(g) == g.server_context

\* ripht_sapi_send_header: one raw header line of the engine's list
ripht_sapi_send_header(g, ctx, raw) ==
    IF get_context(g) = NULL THEN ctx
    ELSE IF Len(raw) = 0 THEN ctx
    ELSE LET h == ResponseHeader_parse(raw)
         IN  IF h = << >> THEN ctx ELSE add_header(ctx, h[1])

RECURSIVE SendEach(_, _, _)
SendEach(g, ctx, list) ==
    IF list = << >> THEN ctx
    ELSE SendEach(g, ripht_sapi_send_header(g, ctx, Head(list)), Tail(list))

\* the conversion `status as u16` alone, without the range test
ClampStatus_truncate(status) == status % 65536

\* callbacks.rs 136-141: the status code handed to set_status
ClampStatus(status) ==
    IF ~(HTTP_STATUS_MIN <= status /\ status <= HTTP_STATUS_MAX)
    THEN HTTP_STATUS_FALLBACK
    ELSE status

\* ripht_sapi_send_headers: the context afterwards and the return code
ripht_sapi_send_headers(g, ctx) ==
    IF get_context(g) = NULL
    THEN [ctx |-> ctx, ret |-> SAPI_HEADER_SEND_FAILED]
    ELSE LET c1 == set_status(ctx, ClampStatus(g.http_response_code))
             c2 == [c1 EXCEPT !.response_headers = << >>]
         IN  [ctx |-> SendEach(g, c2, g.headers),
              ret |-> SAPI_HEADER_SENT_SUCCESSFULLY]

\* the engine's sapi_send_headers: marks the headers sent and hands its
\* header list to the send-headers callback; a failed send unmarks them
sapi_send_headers(g, ctx) ==
    IF g.headers_sent # 0 THEN [g |-> g, ctx |-> ctx]
    ELSE LET r == ripht_sapi_send_headers(g, ctx)
         IN  [g   |-> [g EXCEPT !.headers_sent =
                          IF r.ret = SAPI_HEADER_SENT_SUCCESSFULLY THEN 1 ELSE 0],
              ctx |-> r.ctx]

\* ripht_sapi_ub_write without the early return for an empty slice
ripht_sapi_ub_write_no_empty_check(g, ctx, str) ==
    LET s == sapi_send_headers(g, ctx)
    IN  IF get_context(s.g) = NULL
        THEN [g |-> s.g, ctx |-> s.ctx, chunks |-> << >>, ret |-> 0,
              panicked |-> FALSE]
        ELSE LET w == write_output(s.ctx, str)
             IN  [g |-> s.g, ctx |-> w.ctx, chunks |-> w.chunks,
                  ret |-> catch_unwind(w.panicked, w.ret, 0),
                  panicked |-> w.panicked]

\* ripht_sapi_ub_write: the globals and the context afterwards, the chunk
\* delivered, the returned length and whether Rust code panicked inside
\* (caught by catch_unwind)
ripht_sapi_ub_write(g, ctx, str) ==
    IF Len(str) = 0
    THEN [g |-> g, ctx |-> ctx, chunks |-> << >>, ret |-> 0,
          panicked |-> FALSE]
    ELSE LET s == sapi_send_headers(g, ctx)
         IN  IF get_context(s.g) = NULL
             THEN [g |-> s.g, ctx |-> s.ctx, chunks |-> << >>, ret |-> 0,
                   panicked |-> FALSE]
             ELSE LET w == write_output(s.ctx, str)
                  IN  [g |-> s.g, ctx |-> w.ctx, chunks |-> w.chunks,
                       ret |-> catch_unwind(w.panicked, w.ret, 0),
                       panicked |-> w.panicked]

\* a flush that sends the headers and starts the context's header list anew
ripht_sapi_flush_resets_headers(g, ctx) ==
    LET s == sapi_send_headers(g, ctx)
    IN  [g |-> s.g, ctx |-> [s.ctx EXCEPT !.response_headers = << >>]]

\* ripht_sapi_flush: no flush callback is ever registered by the executor,
\* so ServerContext::flush does nothing
ripht_sapi_flush(g, ctx) == sapi_send_headers(g, ctx)

\* ServerContext::flush reached from ripht_sapi_flush: whether a registered
\* flush callback is called
flush_forwarded(g, ctx) == get_context(g) # NULL /\ ctx.flush_callback

\* a log-message callback that records the message whatever the slot holds
ripht_sapi_log_message_any_slot(g, ctx, syslog_type) ==
    add_message(ctx, ExecutionMessage_from_syslog(syslog_type, "msg"))

\* ripht_sapi_log_message
ripht_sapi_log_message(g, ctx, syslog_type) ==
    IF get_context(g) = NULL THEN ctx
    ELSE add_message(ctx, ExecutionMessage_from_syslog(syslog_type, "msg"))

\* callbacks.rs 303-309: eprintln! runs, outside catch_unwind, when the
\* installed context asks for messages on stderr
log_message_prints(g, ctx) == get_context(g) # NULL /\ ctx.log_to_stderr

\* ripht_sapi_read_post with a non-null buffer of count_bytes bytes
ripht_sapi_read_post(g, ctx, count_bytes) ==
    IF count_bytes = 0 THEN [ctx |-> ctx, data |-> << >>, ret |-> 0]
    ELSE IF get_context(g) = NULL THEN [ctx |-> ctx, data |-> << >>, ret |-> 0]
    ELSE read_post(ctx, count_bytes)

\* ripht_sapi_getenv: << >> is the null pointer
ripht_sapi_getenv(g, ctx, name) ==
    IF name = "" THEN << >>
    ELSE IF get_context(g) # NULL THEN get_env(ctx, name)
    ELSE << >>

\* the value registered under SERVER_SOFTWARE (mod.rs: SERVER_SOFTWARE)
ServerSoftware == [k |-> "SERVER_SOFTWARE", v |-> "ripht"]

\* a register-vars callback that registers the server identity after the
\* pairs of the request
ripht_sapi_register_server_variables_identity_last(g, ctx) ==
    (IF get_context(g) = NULL THEN << >> ELSE ctx.server_vars)
    \o <<ServerSoftware>>

\* a register-vars callback that registers the server identity and nothing
\* of the request
ripht_sapi_register_server_variables_identity_only(g, ctx) == <<ServerSoftware>>

\* ripht_sapi_register_server_variables with a non-null array: the pairs
\* handed to php_register_variable_safe, in order
ripht_sapi_register_server_variables(g, ctx) ==
    <<ServerSoftware>>
    \o (IF get_context(g) = NULL THEN << >> ELSE ctx.server_vars)

\* ripht_sapi_read_cookies
ripht_sapi_read_cookies(g, ctx) ==
    IF get_context(g) = NULL THEN NULL ELSE cookie_data_ptr(ctx, g.server_context)

\* ------------------------------------------------------------ sapi::executor
\* an install that leaves the slot as it was
InstallContext_skipped(g, ctx_ptr) == g

\* the write of the context pointer into the slot
InstallContext(g, ctx_ptr) == [g EXCEPT !.server_context = ctx_ptr]

\* a clear that leaves the slot as it was
ClearContext_skipped(g) == g

\* the write of null into the slot
ClearContext(g) == [g EXCEPT !.server_context = NULL]

\* setup_globals that leaves the engine's response code as it finds it
setup_globals_keep_code(g, ctx, ctx_ptr) ==
    [g EXCEPT !.request_info.request_method = request_method_ptr(ctx, ctx_ptr),
              !.request_info.content_type   = content_type_ptr(ctx, ctx_ptr),
              !.request_info.content_length = Len(ctx.post_data),
              !.request_info.query_string   = query_string_ptr(ctx, ctx_ptr)]

\* Executor::setup_globals
setup_globals(g, ctx, ctx_ptr) ==
    [g EXCEPT !.request_info.request_method = request_method_ptr(ctx, ctx_ptr),
              !.request_info.content_type   = content_type_ptr(ctx, ctx_ptr),
              !.request_info.content_length = Len(ctx.post_data),
              !.request_info.query_string   = query_string_ptr(ctx, ctx_ptr),
              !.http_response_code = 200]

\* Executor::cleanup_globals
cleanup_globals(g) ==
    [g EXCEPT !.server_context = NULL,
              !.request_info.content_type = NULL,
              !.request_info.query_string = NULL,
              !.request_info.cookie_data  = NULL]

\* the engine's zend_alter_ini_entry_chars at ZEND_INI_STAGE_RUNTIME on the
\* directive display_errors: the first alteration saves the original value
\* and marks the directive as modified
zend_alter_ini_entry_chars(e, value) ==
    [e EXCEPT !.ini = value,
              !.ini_modified = TRUE,
              !.ini_orig = IF e.ini_modified THEN @ ELSE e.ini]

\* Executor::apply_ini_overrides on the engine's directive table
RECURSIVE apply_ini_overrides(_, _)
apply_ini_overrides(e, overrides) ==
    IF overrides = << >> THEN e
    ELSE apply_ini_overrides(
           [zend_alter_ini_entry_chars(e, Head(overrides))
               EXCEPT !.ini_applied = @ + 1],
           Tail(overrides))

\* std::path::Path::exists: false for a path the OS rejects (embedded NUL)
PathExists(path) == path = "valid"

\* ExecutionContext::path_as_cstring fails on an embedded NUL
PathHasNul(path) == path = "nul"

\* the precondition checks shared by execute_with_hooks and
\* execute_streaming: the error returned, or "pass"
Precheck(init_result, path) ==
    IF init_result # "ok" THEN "NotInitialized"
    ELSE IF ~PathExists(path) THEN "ScriptNotFound"
    ELSE IF PathHasNul(path) THEN "InvalidPath"
    ELSE "pass"

\* ------------------------------------------------------------------ state
VARIABLES
    threads,          \* the threads calling RiphtSapi::init: where each is
                      \* and what its last call returned
    PHP_INIT_RESULT,  \* the memoized outcome of RiphtSapi::init
    sapi_globals,     \* the engine's sapi_globals structure; server_context
                      \* is the slot: NULL or the id of a ServerContext
    engine,           \* engine state behind the primitives
    heap,             \* ServerContext allocations not yet freed
    server_ctx,       \* fields of the ServerContext of the current request
    pc,               \* the foreign call the executor is in; "returned"
                      \* when the call has just left, "idle" between calls
    call,             \* arguments and locals of the current execute call
    trace,            \* hooks and engine primitives invoked by this call
    chunks,           \* slices delivered to the streaming callback
    writes,           \* slices the engine passed to write-output, and returns
    twin,             \* a callback-free context fed the same engine writes
    slot_writes,      \* non-null writes to the slot made by this call
    outcome,          \* how the last call left: "none" while running
    result,           \* the ExecutionResult of the last Ok return
    nreq              \* execute calls made so far

vars == <<threads, PHP_INIT_RESULT, sapi_globals, engine, heap, server_ctx, pc, call,
          trace, chunks, writes, twin, slot_writes, outcome, result, nreq>>

NoRequest == [input |-> << >>, has_vars |-> FALSE, ini |-> << >>, env |-> << >>,
     vars |-> << >>, log_to_stderr |-> FALSE]
NoResult == ExecutionResult_new(0, << >>, << >>, << >>)

\* the requests of the output scenarios: a bare one, and one with tracked
\* meta-variables, an ini override and messages echoed to stderr (as the CLI
\* adapter builds them); neither has a body or env overrides
Requests ==
    {[input |-> << >>, has_vars |-> FALSE, ini |-> << >>, env |-> << >>,
     vars |-> << >>, log_to_stderr |-> FALSE],
     [input |-> << >>, has_vars |-> TRUE, ini |-> <<"0">>, env |-> << >>,
      vars |-> << >>, log_to_stderr |-> TRUE]}

\* no getenv call observed yet
NoGetenv == [n |-> 0, name |-> "", ret |-> << >>]
\* no callback has been entered outside a request
NoCallback == [n |-> 0, cb |-> "none", ret |-> 0]

\* the engine before module startup: the directive table holds the value of
\* INI_ENTRIES (display_errors=1), nothing has run
NoEngine ==
    [ini |-> "1", ini_modified |-> FALSE, ini_orig |-> "1",
     ini_applied |-> 0, ini_at_start |-> "1", ncalls |-> 0,
     status_set |-> FALSE, emitted |-> << >>, reads |-> << >>,
     getenv |-> NoGetenv, outside |-> NoCallback,
     registered |-> << >>, registered_idle |-> << >>,
     registrations |-> 0, startups |-> 0, shutdowns |-> 0,
     buffer_policy |-> [initial_cap |-> DEFAULT_BUFFER_SIZE, strategy |-> "X4"]]

\* a thread that has not called init
NoThread == [pc |-> "out", calls |-> 0, local |-> "none", ret |-> "none",
             seen |-> "none", ran |-> 0, got |-> -1]
Threads == 1..MaxThreads

NoCall == [mode |-> "hooks", hooks |-> NoOpHooks, id |-> 0,
           path |-> "valid", success |-> FALSE, req |-> NoRequest,
           key |-> "", value |-> ""]

\* sapi_globals before the first request
NoGlobals ==
    [server_context |-> NULL,
     request_info |-> [request_method |-> NULL, content_type |-> NULL,
                       content_length |-> 0, query_string |-> NULL,
                       cookie_data |-> NULL],
     http_response_code |-> 0,
     headers |-> << >>,
     post_read |-> 0,
     headers_sent |-> 0]

Init ==
    /\ threads = [t \in Threads |-> NoThread]
    /\ PHP_INIT_RESULT = "unset"
    /\ sapi_globals = NoGlobals
    /\ engine = NoEngine
    /\ heap = {}
    /\ server_ctx = ServerContext_from(NoRequest)
    /\ pc = "idle"
    /\ call = NoCall
    /\ trace = << >>
    /\ chunks = << >>
    /\ writes = << >>
    /\ twin = ServerContext_from(NoRequest)
    /\ slot_writes = 0
    /\ outcome = "none"
    /\ result = NoResult
    /\ nreq = 0

\* RiphtSapi::init: the first call starts the engine and memoizes the outcome
RiphtSapi_init ==
    /\ pc = "idle"
    /\ PHP_INIT_RESULT = "unset"
    /\ \E module_startup \in {SUCCESS, FAILURE} :
         PHP_INIT_RESULT' = IF module_startup = FAILURE THEN "failed" ELSE "ok"
    /\ engine' = [engine EXCEPT !.registrations = @ + 1, !.startups = @ + 1]
    /\ UNCHANGED <<sapi_globals, heap, server_ctx, pc, call, trace,
                   chunks, writes, twin, slot_writes, outcome, result, nreq>>
    /\ UNCHANGED threads

\* bookkeeping of a call that begins
BeginCall ==
    /\ nreq' = nreq + 1
    /\ chunks' = << >>
    /\ writes' = << >>
    /\ result' = NoResult

\* the engine's per-request bookkeeping, as a request finds it
EngineRequestBegins(e) ==
    [e EXCEPT !.ncalls = 0, !.ini_applied = 0, !.status_set = FALSE,
              !.emitted = << >>, !.reads = << >>, !.getenv = NoGetenv,
              !.registered = << >>, !.outside = NoCallback,
              !.ini_at_start = e.ini]

\* the caller takes what the call left (the result, the error or the caught
\* panic) and is ready for the next request; a freed context is gone, a
\* leaked one stays where it is
CallerContinues ==
    /\ pc = "returned"
    /\ pc' = "idle"
    /\ outcome' = "none"
    /\ result' = NoResult
    /\ call' = NoCall
    /\ trace' = << >>
    /\ chunks' = << >>
    /\ writes' = << >>
    /\ slot_writes' = 0
    /\ twin' = ServerContext_from(NoRequest)
    /\ server_ctx' = IF call.id \in heap THEN server_ctx
                     ELSE ServerContext_from(NoRequest)
    /\ engine' = EngineRequestBegins(engine)
    /\ UNCHANGED <<PHP_INIT_RESULT, sapi_globals, heap, nreq>>
    /\ UNCHANGED threads

\* the engine's sapi_activate part of php_request_startup: per-request
\* globals are reset and the cookie string is fetched through read-cookies;
\* the response code is left to the SAPI (setup_globals)
EngineActivate(g, ctx) ==
    [g EXCEPT !.headers_sent = 0,
              !.post_read = 0,
              !.headers = << >>,
              !.request_info.cookie_data = ripht_sapi_read_cookies(g, ctx)]

\* the engine's deactivation at the end of php_request_shutdown: the header
\* list is destroyed and directives altered at runtime are restored
EngineDeactivate(e) ==
    IF e.ini_modified
    THEN [e EXCEPT !.ini = e.ini_orig, !.ini_modified = FALSE]
    ELSE e

\* Box::<ServerContext>::from(ctx), Box::into_raw, the slot write and
\* setup_globals (executor.rs 147-153 and 87-96)
InstallRequest(g, ctx, ctx_ptr) ==
    setup_globals(InstallContext(g, ctx_ptr), ctx, ctx_ptr)

\* execute_with_hooks that installs the request before it checks the script
execute_with_hooks_install_first ==
    /\ pc = "idle"
    /\ nreq < MaxRequests
    /\ BeginCall
    /\ \E hooks \in {NoOpHooks} \cup CustomHooks, path \in ScriptPaths,
          req \in Requests :
         LET check == Precheck(PHP_INIT_RESULT, path) IN
         /\ call' = [mode |-> "hooks", hooks |-> hooks, id |-> nreq + 1,
                     path |-> path, success |-> FALSE, req |-> req,
                     key |-> "", value |-> ""]
         /\ twin' = ServerContext_from(req)
         /\ trace' = << >>
         /\ slot_writes' = 0
         /\ IF check # "pass"
            THEN /\ outcome' = check
                 /\ pc' = "returned"
                 /\ sapi_globals' = InstallRequest(sapi_globals,
                                        ServerContext_from(req), nreq + 1)
                 /\ UNCHANGED server_ctx
            ELSE /\ outcome' = "none"
                 /\ pc' = "on_context_created"
                 /\ server_ctx' = ServerContext_from(req)
                 /\ UNCHANGED sapi_globals
    /\ UNCHANGED <<PHP_INIT_RESULT, engine, heap>>
    /\ UNCHANGED threads

\* execute_with_hooks up to its first hook (execute is the NoOpHooks case).
\* The method is modelled for any receiver: a handle obtained through
\* instance() exists only once the init result is "ok", a handle built inside
\* the crate may exist before.  A path with an embedded NUL does not exist,
\* so the InvalidPath return behind the existence check is never taken.
execute_with_hooks ==
    /\ pc = "idle"
    /\ nreq < MaxRequests
    /\ BeginCall
    /\ \E hooks \in {NoOpHooks} \cup CustomHooks, path \in ScriptPaths,
          req \in Requests :
         LET check == Precheck(PHP_INIT_RESULT, path) IN
         /\ call' = [mode |-> "hooks", hooks |-> hooks, id |-> nreq + 1,
                     path |-> path, success |-> FALSE, req |-> req,
                     key |-> "", value |-> ""]
         /\ twin' = ServerContext_from(req)
         /\ trace' = << >>
         /\ slot_writes' = 0
         /\ IF check # "pass"
            THEN /\ outcome' = check
                 /\ pc' = "returned"
                 /\ UNCHANGED server_ctx
            ELSE /\ outcome' = "none"
                 /\ pc' = "on_context_created"
                 \* the ExecutionContext the call still owns
                 /\ server_ctx' = ServerContext_from(req)
    /\ UNCHANGED <<PHP_INIT_RESULT, sapi_globals, engine, heap>>
    /\ UNCHANGED threads

\* hooks.on_context_created(), then the context is boxed and installed
OnContextCreated ==
    /\ pc = "on_context_created"
    /\ call.hooks.panic_at # "on_context_created"
    /\ trace' = Append(trace, Ev0("on_context_created"))
    /\ heap' = heap \cup {call.id}
    /\ sapi_globals' = InstallRequest(sapi_globals, server_ctx, call.id)
    /\ slot_writes' = slot_writes + 1
    /\ pc' = "on_request_starting"
    /\ UNCHANGED <<PHP_INIT_RESULT, engine, server_ctx, call, chunks, writes,
                   twin, outcome, result, nreq>>
    /\ UNCHANGED threads

\* execute_streaming up to php_request_startup
execute_streaming ==
    /\ pc = "idle"
    /\ nreq < MaxRequests
    /\ BeginCall
    /\ \E path \in ScriptPaths, req \in Requests, panics \in BOOLEAN :
         LET check == Precheck(PHP_INIT_RESULT, path)
             ctx   == set_output_callback(ServerContext_from(req), panics)
         IN
         /\ call' = [mode |-> "streaming", hooks |-> NoOpHooks, id |-> nreq + 1,
                     path |-> path, success |-> FALSE, req |-> req,
                     key |-> "", value |-> ""]
         /\ twin' = ServerContext_from(req)
         /\ IF check # "pass"
            THEN /\ outcome' = check
                 /\ pc' = "returned"
                 /\ trace' = << >>
                 /\ slot_writes' = 0
                 /\ UNCHANGED <<server_ctx, heap, sapi_globals>>
            ELSE /\ outcome' = "none"
                 /\ server_ctx' = ctx
                 /\ heap' = heap \cup {nreq + 1}
                 /\ sapi_globals' = InstallRequest(sapi_globals, ctx, nreq + 1)
                 /\ slot_writes' = 1
                 /\ trace' = <<Ev0("php_request_startup")>>
                 /\ pc' = "in_startup"
    /\ UNCHANGED <<PHP_INIT_RESULT, engine>>
    /\ UNCHANGED threads

\* hooks.on_request_starting(), then php_request_startup is entered
OnRequestStarting ==
    /\ pc = "on_request_starting"
    /\ call.hooks.panic_at # "on_request_starting"
    /\ trace' = trace \o <<Ev0("on_request_starting"), Ev0("php_request_startup")>>
    /\ pc' = "in_startup"
    /\ UNCHANGED <<PHP_INIT_RESULT, sapi_globals, engine, heap, server_ctx,
                   call, chunks, writes, twin, slot_writes, outcome, result, nreq>>
    /\ UNCHANGED threads

\* run_script is entered: php_execute_script starts running the script
EnterScript(tr) == Append(tr, Ev0("php_execute_script"))

\* php_request_shutdown is entered on the success path, after the input is
\* marked as read
EnterShutdown(g) == [g EXCEPT !.post_read = 1]

\* php_request_startup returns SUCCESS; the ini overrides are applied
StartupSucceeds ==
    /\ pc = "in_startup"
    /\ sapi_globals' = EngineActivate(sapi_globals, server_ctx)
    /\ engine' = apply_ini_overrides(EngineRequestBegins(engine),
                                     server_ctx.ini_overrides)
    /\ IF call.mode = "streaming"
       THEN /\ trace' = EnterScript(trace)
            /\ pc' = "in_script"
       ELSE /\ trace' = trace
            /\ pc' = "on_request_started"
    /\ UNCHANGED <<PHP_INIT_RESULT, heap, server_ctx, call, chunks, writes,
                   twin, slot_writes, outcome, result, nreq>>
    /\ UNCHANGED threads

\* php_request_startup returns FAILURE: the context is dropped and
\* php_request_shutdown is entered
StartupFails ==
    /\ pc = "in_startup"
    /\ sapi_globals' = EngineActivate(sapi_globals, server_ctx)
    /\ engine' = EngineRequestBegins(engine)
    /\ heap' = heap \ {call.id}
    /\ trace' = Append(trace, Ev0("php_request_shutdown"))
    /\ pc' = "in_failed_shutdown"
    /\ UNCHANGED <<PHP_INIT_RESULT, server_ctx, call, chunks, writes, twin,
                   slot_writes, outcome, result, nreq>>
    /\ UNCHANGED threads

\* php_request_shutdown returns on the failure path: the slot is cleared and
\* StartupFailed is returned
FailedShutdownReturns ==
    /\ pc = "in_failed_shutdown"
    /\ engine' = EngineDeactivate(engine)
    /\ sapi_globals' = ClearContext([sapi_globals EXCEPT !.headers = << >>])
    /\ outcome' = "StartupFailed"
    /\ pc' = "returned"
    /\ UNCHANGED <<PHP_INIT_RESULT, heap, server_ctx, call, trace, chunks,
                   writes, twin, slot_writes, result, nreq>>
    /\ UNCHANGED threads

\* hooks.on_request_started()
OnRequestStarted ==
    /\ pc = "on_request_started"
    /\ call.hooks.panic_at # "on_request_started"
    /\ trace' = Append(trace, Ev0("on_request_started"))
    /\ pc' = "on_script_executing"
    /\ UNCHANGED <<PHP_INIT_RESULT, sapi_globals, engine, heap, server_ctx,
                   call, chunks, writes, twin, slot_writes, outcome, result, nreq>>
    /\ UNCHANGED threads

\* an executor that asks is_connection_alive before the script and does not
\* run it for a dead connection
OnScriptExecuting_polls_connection ==
    /\ pc = "on_script_executing"
    /\ call.hooks.panic_at # "on_script_executing"
    /\ IF call.hooks.alive
       THEN /\ trace' = EnterScript(Append(trace,
                   Ev("on_script_executing", <<call.path>>, << >>, 0, << >>)))
            /\ pc' = "in_script"
       ELSE /\ trace' = Append(trace,
                   Ev("on_script_executing", <<call.path>>, << >>, 0, << >>))
            /\ pc' = "on_script_executed"
    /\ UNCHANGED <<PHP_INIT_RESULT, sapi_globals, engine, heap, server_ctx,
                   call, chunks, writes, twin, slot_writes, outcome, result, nreq>>
    /\ UNCHANGED threads

\* hooks.on_script_executing(&script_path), then run_script is entered
OnScriptExecuting ==
    /\ pc = "on_script_executing"
    /\ call.hooks.panic_at # "on_script_executing"
    /\ trace' = EnterScript(Append(trace,
                   Ev("on_script_executing", <<call.path>>, << >>, 0, << >>)))
    /\ pc' = "in_script"
    /\ UNCHANGED <<PHP_INIT_RESULT, sapi_globals, engine, heap, server_ctx,
                   call, chunks, writes, twin, slot_writes, outcome, result, nreq>>
    /\ UNCHANGED threads

\* ------------------------------------- the engine, while a primitive runs
\* The script runs inside php_execute_script; output the engine still
\* buffers is flushed inside php_request_shutdown.
EngineRunning == pc \in {"in_script", "in_shutdown"}

EngineStep == engine' = [engine EXCEPT !.ncalls = @ + 1]

\* the engine calls the write-output callback
UbWrite ==
    /\ EngineRunning
    /\ engine.ncalls < MaxCalls
    /\ EngineStep
    /\ \E str \in Slices :
         LET r == ripht_sapi_ub_write(sapi_globals, server_ctx, str)
             t == ripht_sapi_ub_write(sapi_globals, twin, str)
         IN  /\ sapi_globals' = r.g
             /\ server_ctx' = r.ctx
             /\ chunks' = chunks \o r.chunks
             /\ writes' = Append(writes, [data |-> str, ret |-> r.ret,
                                          panicked |-> r.panicked])
             /\ twin' = t.ctx
    /\ UNCHANGED <<PHP_INIT_RESULT, heap, pc, call, trace, slot_writes,
                   outcome, result, nreq>>
    /\ UNCHANGED threads

\* the engine calls the flush callback
Flush ==
    /\ EngineRunning
    /\ engine.ncalls < MaxCalls
    /\ EngineStep
    /\ LET r == ripht_sapi_flush(sapi_globals, server_ctx)
           t == ripht_sapi_flush(sapi_globals, twin)
       IN  /\ sapi_globals' = r.g
           /\ server_ctx' = r.ctx
           /\ twin' = t.ctx
    /\ trace' = IF flush_forwarded(sapi_globals, server_ctx)
                THEN Append(trace, Ev0("flush_callback"))
                ELSE trace
    /\ UNCHANGED <<PHP_INIT_RESULT, heap, pc, call, chunks, writes,
                   slot_writes, outcome, result, nreq>>
    /\ UNCHANGED threads

\* the engine calls the log-message callback; when the message is echoed to
\* stderr the write may fail
LogMessage ==
    /\ EngineRunning
    /\ engine.ncalls < MaxCalls
    /\ EngineStep
    /\ \E syslog_type \in LogLevels,
          stderr_ok \in IF log_message_prints(sapi_globals, server_ctx)
                        THEN BOOLEAN ELSE {TRUE} :
         IF stderr_ok
         THEN /\ server_ctx' = ripht_sapi_log_message(sapi_globals, server_ctx,
                                                      syslog_type)
              /\ twin' = ripht_sapi_log_message(sapi_globals, twin, syslog_type)
              /\ UNCHANGED pc
         ELSE \* eprintln! panics on a failed write: the panic leaves an
              \* extern "C" function and the process aborts
              /\ pc' = "aborted"
              /\ UNCHANGED <<server_ctx, twin>>
    /\ UNCHANGED <<PHP_INIT_RESULT, sapi_globals, heap, call, trace, chunks,
                   writes, slot_writes, outcome, result, nreq>>
    /\ UNCHANGED threads

\* the script adds a line to the engine's header list (header()); the engine
\* refuses once the headers are sent
ScriptHeader ==
    /\ pc = "in_script"
    /\ engine.ncalls < MaxCalls
    /\ sapi_globals.headers_sent = 0
    /\ \E raw \in RawHeaders :
         /\ sapi_globals' = [sapi_globals EXCEPT !.headers = Append(@, raw)]
         /\ engine' = [engine EXCEPT !.ncalls = @ + 1,
                                     !.emitted = Append(@, raw)]
    /\ UNCHANGED <<PHP_INIT_RESULT, heap, server_ctx, pc, call, trace, chunks,
                   writes, twin, slot_writes, outcome, result, nreq>>
    /\ UNCHANGED threads

\* the script sets the response code (http_response_code())
ScriptStatus ==
    /\ pc = "in_script"
    /\ engine.ncalls < MaxCalls
    /\ sapi_globals.headers_sent = 0
    /\ engine' = [engine EXCEPT !.ncalls = @ + 1, !.status_set = TRUE]
    /\ \E code \in StatusCodes :
         sapi_globals' = [sapi_globals EXCEPT !.http_response_code = code]
    /\ UNCHANGED <<PHP_INIT_RESULT, heap, server_ctx, pc, call, trace, chunks,
                   writes, twin, slot_writes, outcome, result, nreq>>
    /\ UNCHANGED threads

\* the engine sends the headers on its own (output layer shutdown)
EngineSendHeaders ==
    /\ pc = "in_shutdown"
    /\ sapi_globals.headers_sent = 0
    /\ LET r == sapi_send_headers(sapi_globals, server_ctx)
           t == sapi_send_headers(sapi_globals, twin)
       IN  /\ sapi_globals' = r.g
           /\ server_ctx' = r.ctx
           /\ twin' = t.ctx
    /\ UNCHANGED <<PHP_INIT_RESULT, engine, heap, pc, call, trace, chunks,
                   writes, slot_writes, outcome, result, nreq>>
    /\ UNCHANGED threads

\* a run_script whose failure ends the call at once with an error
ScriptReturns_failure_is_error ==
    /\ pc = "in_script"
    /\ \E exec_result \in {SUCCESS, FAILURE} :
         /\ call' = [call EXCEPT !.success = (exec_result # FAILURE)]
         /\ IF call.mode = "streaming"
            THEN /\ sapi_globals' = EnterShutdown(sapi_globals)
                 /\ trace' = Append(trace, Ev0("php_request_shutdown"))
                 /\ pc' = "in_shutdown"
                 /\ UNCHANGED outcome
            ELSE IF exec_result = FAILURE
            THEN /\ pc' = "returned"
                 /\ outcome' = "ScriptFailed"
                 /\ UNCHANGED <<sapi_globals, trace>>
            ELSE /\ pc' = "on_script_executed"
                 /\ UNCHANGED <<sapi_globals, trace, outcome>>
    /\ UNCHANGED <<PHP_INIT_RESULT, engine, heap, server_ctx, chunks, writes,
                   twin, slot_writes, result, nreq>>
    /\ UNCHANGED threads

\* php_execute_script returns; execute_streaming goes on to request shutdown
ScriptReturns ==
    /\ pc = "in_script"
    /\ \E exec_result \in {SUCCESS, FAILURE} :
         call' = [call EXCEPT !.success = (exec_result # FAILURE)]
    /\ IF call.mode = "streaming"
       THEN /\ sapi_globals' = EnterShutdown(sapi_globals)
            /\ trace' = Append(trace, Ev0("php_request_shutdown"))
            /\ pc' = "in_shutdown"
       ELSE /\ pc' = "on_script_executed"
            /\ UNCHANGED <<sapi_globals, trace>>
    /\ UNCHANGED <<PHP_INIT_RESULT, engine, heap, server_ctx, chunks, writes,
                   twin, slot_writes, outcome, result, nreq>>
    /\ UNCHANGED threads

\* an executor that goes from the script to on_request_finishing directly
OnScriptExecuted_skipped ==
    /\ pc = "on_script_executed"
    /\ call.hooks.panic_at # "on_script_executed"
    /\ pc' = "on_request_finishing"
    /\ UNCHANGED <<PHP_INIT_RESULT, sapi_globals, engine, heap, server_ctx,
                   call, trace, chunks, writes, twin, slot_writes, outcome,
                   result, nreq>>
    /\ UNCHANGED threads

\* hooks.on_script_executed(success)
OnScriptExecuted ==
    /\ pc = "on_script_executed"
    /\ call.hooks.panic_at # "on_script_executed"
    /\ trace' = Append(trace, Ev("on_script_executed", << >>, << >>,
                                 IF call.success THEN 1 ELSE 0, << >>))
    /\ pc' = "on_request_finishing"
    /\ UNCHANGED <<PHP_INIT_RESULT, sapi_globals, engine, heap, server_ctx,
                   call, chunks, writes, twin, slot_writes, outcome, result, nreq>>
    /\ UNCHANGED threads

\* hooks.on_request_finishing(), then php_request_shutdown is entered
OnRequestFinishing ==
    /\ pc = "on_request_finishing"
    /\ call.hooks.panic_at # "on_request_finishing"
    /\ trace' = trace \o <<Ev0("on_request_finishing"), Ev0("php_request_shutdown")>>
    /\ sapi_globals' = EnterShutdown(sapi_globals)
    /\ pc' = "in_shutdown"
    /\ UNCHANGED <<PHP_INIT_RESULT, engine, heap, server_ctx, call, chunks,
                   writes, twin, slot_writes, outcome, result, nreq>>
    /\ UNCHANGED threads

\* what the executor does with the globals once php_request_shutdown has
\* returned on the success path: the slot is cleared, the Box is reclaimed
\* and cleanup_globals runs
AfterShutdown(g) == cleanup_globals(ClearContext(g))

\* php_request_shutdown returns on the success path, the output layer having
\* sent the headers if nothing did before.  execute_streaming returns the
\* result with an empty body; execute_with_hooks goes on to the result hooks.
ShutdownReturns ==
    /\ pc = "in_shutdown"
    /\ sapi_globals.headers_sent = 1
    /\ engine' = EngineDeactivate(engine)
    /\ sapi_globals' = AfterShutdown([sapi_globals EXCEPT !.headers = << >>])
    /\ IF call.mode = "streaming"
       THEN /\ heap' = heap \ {call.id}
            /\ result' = into_result(server_ctx, << >>)
            /\ outcome' = "Ok"
            /\ pc' = "returned"
       ELSE /\ pc' = "assemble"
            /\ UNCHANGED <<heap, result, outcome>>
    /\ UNCHANGED <<PHP_INIT_RESULT, server_ctx, call, trace, chunks, writes,
                   twin, slot_writes, nreq>>
    /\ UNCHANGED threads

\* ------------------------------- execute_with_hooks after request shutdown
\* whether H is NoOpHooks (the TypeId test)
IsNoOp(hooks) == hooks.kind = "NoOp"

\* a header filter that keeps a header whatever on_header answers
OnHeader_ignored(hooks, h) == TRUE

\* hooks.on_header(h.name(), h.value()): whether the hook keeps the header
OnHeader(hooks, h) == h.name \notin hooks.reject

HeaderEvent(h) == Ev("on_header", h.name, h.value, 0, << >>)
MessageEvent(m) == Ev("on_php_message", <<m.level>>, <<m.message>>, 0, << >>)

\* .filter(|h| hooks.on_header(h.name(), h.value())).cloned().collect()
RECURSIVE FilterHeaders(_, _)
FilterHeaders(hooks, hs) ==
    IF hs = << >> THEN << >>
    ELSE (IF OnHeader(hooks, Head(hs)) THEN <<Head(hs)>> ELSE << >>)
         \o FilterHeaders(hooks, Tail(hs))

\* a fast path that returns no headers
ResultHeaders_fast_path_empty(hooks, ctx) ==
    IF IsNoOp(hooks) THEN << >>
    ELSE FilterHeaders(hooks, ctx.response_headers)

\* the header list of the result, and the on_header calls made for it
ResultHeaders(hooks, ctx) ==
    IF IsNoOp(hooks) THEN ctx.response_headers
    ELSE FilterHeaders(hooks, ctx.response_headers)

HeaderEvents(hooks, ctx) ==
    IF IsNoOp(hooks) THEN << >>
    ELSE [i \in 1..Len(ctx.response_headers) |-> HeaderEvent(ctx.response_headers[i])]

\* a body that is the buffer whatever on_output answers
ResultBody_always_buffer(hooks, ctx) == ctx.output_buffer

\* the body of the result: the buffer when on_output answers Buffer (matched
\* as Continue in executor.rs), empty when it answers Handled (Done)
ResultBody(hooks, ctx) ==
    IF hooks.on_output = "Buffer" THEN ctx.output_buffer ELSE << >>

\* the result of execute_with_hooks (executor.rs 197-240)
AssembledResult(hooks, ctx) ==
    ExecutionResult_new(ctx.status_code, ResultBody(hooks, ctx),
                        ResultHeaders(hooks, ctx), ctx.messages)

\* the result hooks with on_status ahead of the header filter
ResultEvents_status_first(hooks, ctx) ==
    <<Ev("on_status", << >>, << >>, ctx.status_code, << >>)>>
    \o HeaderEvents(hooks, ctx)
    \o [i \in 1..Len(ctx.messages) |-> MessageEvent(ctx.messages[i])]
    \o <<Ev("on_output", << >>, << >>, 0, ctx.output_buffer),
         Ev0("on_request_finished")>>

\* the hook calls of executor.rs 197-242, in order
ResultEvents(hooks, ctx) ==
    HeaderEvents(hooks, ctx)
    \o <<Ev("on_status", << >>, << >>, ctx.status_code, << >>)>>
    \o [i \in 1..Len(ctx.messages) |-> MessageEvent(ctx.messages[i])]
    \o <<Ev("on_output", << >>, << >>, 0, ctx.output_buffer),
         Ev0("on_request_finished")>>

\* the events up to and including the first call of hook `name`
RECURSIVE UpTo(_, _)
UpTo(evs, name) ==
    IF evs = << >> THEN << >>
    ELSE IF Head(evs).ev = name THEN <<Head(evs)>>
    ELSE <<Head(evs)>> \o UpTo(Tail(evs), name)

Calls(evs, name) == \E i \in 1..Len(evs) : evs[i].ev = name

\* executor.rs 197-244: headers are filtered, the result hooks run, the
\* result is assembled and returned (header list moved out for NoOpHooks)
AssembleResult ==
    /\ pc = "assemble"
    /\ ~Calls(ResultEvents(call.hooks, server_ctx), call.hooks.panic_at)
    /\ trace' = trace \o ResultEvents(call.hooks, server_ctx)
    /\ result' = AssembledResult(call.hooks, server_ctx)
    /\ server_ctx' = IF IsNoOp(call.hooks)
                     THEN [server_ctx EXCEPT !.response_headers = << >>]
                     ELSE server_ctx
    /\ heap' = heap \ {call.id}
    /\ outcome' = "Ok"
    /\ pc' = "returned"
    /\ UNCHANGED <<PHP_INIT_RESULT, sapi_globals, engine, call, chunks, writes,
                   twin, slot_writes, nreq>>
    /\ UNCHANGED threads

\* a hook panics and the panic unwinds out of execute_with_hooks: locals are
\* dropped; a context that was turned into a raw pointer and not yet
\* reclaimed has no owner and is leaked
HookPanics ==
    /\ \/ /\ pc \in LifecycleHooks
          /\ call.hooks.panic_at = pc
          /\ trace' = Append(trace, Ev0(pc))
          /\ UNCHANGED heap
       \/ /\ pc = "assemble"
          /\ Calls(ResultEvents(call.hooks, server_ctx), call.hooks.panic_at)
          /\ trace' = trace \o UpTo(ResultEvents(call.hooks, server_ctx),
                                    call.hooks.panic_at)
          /\ heap' = heap \ {call.id}
    /\ outcome' = "panicked"
    /\ pc' = "returned"
    /\ UNCHANGED <<PHP_INIT_RESULT, sapi_globals, engine, server_ctx, call,
                   chunks, writes, twin, slot_writes, result, nreq>>
    /\ UNCHANGED threads

Next ==
    \/ RiphtSapi_init
    \/ execute_with_hooks
    \/ execute_streaming
    \/ OnContextCreated
    \/ OnRequestStarting
    \/ StartupSucceeds
    \/ StartupFails
    \/ FailedShutdownReturns
    \/ OnRequestStarted
    \/ OnScriptExecuting
    \/ UbWrite
    \/ Flush
    \/ LogMessage
    \/ ScriptHeader
    \/ ScriptStatus
    \/ EngineSendHeaders
    \/ ScriptReturns
    \/ OnScriptExecuted
    \/ OnRequestFinishing
    \/ ShutdownReturns
    \/ AssembleResult
    \/ HookPanics
    \/ CallerContinues

Spec == Init /\ [][Next]_vars

\* a shutdown that forgets the memoized outcome of init
RiphtSapi_shutdown_resets ==
    /\ pc = "idle"
    /\ engine.shutdowns < MaxShutdowns
    /\ engine' = [engine EXCEPT !.shutdowns = @ + 1]
    /\ PHP_INIT_RESULT' = "unset"
    /\ UNCHANGED <<sapi_globals, heap, server_ctx, pc, call, trace, chunks,
                   writes, twin, slot_writes, outcome, result, nreq>>
    /\ UNCHANGED threads

\* RiphtSapi::shutdown, called between requests: php_module_shutdown and
\* sapi_shutdown; the OnceLock keeps what init stored
RiphtSapi_shutdown ==
    /\ pc = "idle"
    /\ engine.shutdowns < MaxShutdowns
    /\ engine' = [engine EXCEPT !.shutdowns = @ + 1]
    /\ UNCHANGED <<PHP_INIT_RESULT, sapi_globals, heap, server_ctx, pc, call,
                   trace, chunks, writes, twin, slot_writes, outcome, result,
                   nreq>>
    /\ UNCHANGED threads

\* php_request_startup on an engine that was shut down has no defined
\* behaviour: it may return either code (StartupSucceeds, StartupFails) or
\* bring the process down
StartupCrashes ==
    /\ pc = "in_startup"
    /\ engine.shutdowns > 0
    /\ pc' = "aborted"
    /\ UNCHANGED <<PHP_INIT_RESULT, sapi_globals, engine, heap, server_ctx,
                   call, trace, chunks, writes, twin, slot_writes, outcome,
                   result, nreq>>
    /\ UNCHANGED threads

\* the callbacks and API calls the engine makes while a primitive runs
EngineCallsBack ==
    \/ UbWrite
    \/ Flush
    \/ LogMessage
    \/ ScriptHeader
    \/ ScriptStatus

\* the steps of the executor itself: hooks, and primitives that return
ExecutorStep ==
    \/ OnContextCreated
    \/ OnRequestStarting
    \/ StartupSucceeds
    \/ StartupFails
    \/ FailedShutdownReturns
    \/ OnRequestStarted
    \/ OnScriptExecuting
    \/ EngineSendHeaders
    \/ ScriptReturns
    \/ OnScriptExecuted
    \/ OnRequestFinishing
    \/ ShutdownReturns
    \/ AssembleResult
    \/ HookPanics

\* calls of execute_with_hooks, as many as the liveness check follows
LiveCall == nreq < MaxLiveRequests /\ execute_with_hooks

\* a step of the call in progress, the engine calling back no more than
\* MaxLiveCalls times.  The executor runs on the caller's thread: whenever
\* the running call has a next step and the hook or primitive it is in
\* returns, that step is taken.
LiveStep ==
    \/ engine.ncalls < MaxLiveCalls /\ EngineCallsBack
    \/ ExecutorStep

NextLive ==
    \/ RiphtSapi_init
    \/ LiveCall
    \/ LiveStep
    \/ CallerContinues

\* the executor with calls of execute_with_hooks that keep running once
\* they have begun
SpecLive == Init /\ [][NextLive]_vars /\ WF_vars(LiveStep)

\* the handle with RiphtSapi::shutdown among its operations
NextShutdown ==
    \/ RiphtSapi_init
    \/ RiphtSapi_shutdown
    \/ LiveCall
    \/ execute_streaming
    \/ ExecutorStep
    \/ StartupCrashes
    \/ CallerContinues

SpecShutdown == Init /\ [][NextShutdown]_vars

\* ------------------------------------------- input, environment and ini
\* Requests run through execute, with a body and env overrides, and set_ini
\* between them.
\* request bodies
Inputs == {<< >>, <<7, 8, 9>>}
\* env overrides: none; the same key twice; a pair whose value holds a NUL
\* byte ahead of a pair with the same key
EnvOverrides ==
    {<< >>,
     <<[k |-> "K", v |-> "1"], [k |-> "K", v |-> "2"]>>,
     <<[k |-> "L", v |-> "x0y"], [k |-> "L", v |-> "3"]>>}
\* names the engine asks getenv for
EnvNames == {"K", "L", ""}
\* buffer lengths the engine passes to read-post
ReadCounts == {0, 2, 4}
\* set_ini arguments: a directive, an unknown directive, a key with a NUL
IniKeys == {"display_errors", "unknown", "x0y"}
IniValues == {"0", "x0y"}

\* meta-variables of a request: none; a server name; another server name
\* and a pair whose value holds a NUL byte; the same key set twice
ServerVarSets ==
    {<< >>,
     <<[k |-> "SERVER_NAME", v |-> "a"]>>,
     <<[k |-> "SERVER_NAME", v |-> "b"], [k |-> "X", v |-> "x0y"]>>,
     <<[k |-> "Y", v |-> "2"], [k |-> "Y", v |-> "1"]>>}

HostRequests ==
    [input : Inputs, has_vars : {FALSE}, ini : IniOverrides, env : EnvOverrides,
     vars : ServerVarSets, log_to_stderr : {FALSE}]

\* Executor::execute: execute_with_hooks with NoOpHooks, up to its first hook
execute ==
    /\ pc = "idle"
    /\ nreq < MaxRequests
    /\ BeginCall
    /\ \E path \in ScriptPaths, req \in HostRequests :
         LET check == Precheck(PHP_INIT_RESULT, path) IN
         /\ call' = [mode |-> "hooks", hooks |-> NoOpHooks, id |-> nreq + 1,
                     path |-> path, success |-> FALSE, req |-> req,
                     key |-> "", value |-> ""]
         /\ twin' = ServerContext_from(req)
         /\ trace' = << >>
         /\ slot_writes' = 0
         /\ IF check # "pass"
            THEN /\ outcome' = check
                 /\ pc' = "returned"
                 /\ UNCHANGED server_ctx
            ELSE /\ outcome' = "none"
                 /\ pc' = "on_context_created"
                 /\ server_ctx' = ServerContext_from(req)
    /\ UNCHANGED <<PHP_INIT_RESULT, sapi_globals, engine, heap>>
    /\ UNCHANGED threads

\* the engine calls the read-post callback while the script reads its input
ReadPost ==
    /\ pc = "in_script"
    /\ engine.ncalls < MaxCalls
    /\ \E count_bytes \in ReadCounts :
         LET r == ripht_sapi_read_post(sapi_globals, server_ctx, count_bytes)
             t == ripht_sapi_read_post(sapi_globals, twin, count_bytes)
         IN  /\ server_ctx' = r.ctx
             /\ twin' = t.ctx
             /\ engine' = [engine EXCEPT
                              !.ncalls = @ + 1,
                              !.reads = Append(@, [count |-> count_bytes,
                                                   data |-> r.data,
                                                   ret |-> r.ret])]
    /\ UNCHANGED <<PHP_INIT_RESULT, sapi_globals, heap, pc, call, trace, chunks,
                   writes, slot_writes, outcome, result, nreq>>
    /\ UNCHANGED threads

\* the engine fills $_SERVER through the register-vars callback
RegisterVars ==
    /\ pc = "in_script"
    /\ engine.ncalls < MaxCalls
    /\ engine.registered = << >>
    /\ engine' = [engine EXCEPT
                    !.ncalls = @ + 1,
                    !.registered = ripht_sapi_register_server_variables(
                                       sapi_globals, server_ctx)]
    /\ UNCHANGED <<PHP_INIT_RESULT, sapi_globals, heap, server_ctx, pc, call,
                   trace, chunks, writes, twin, slot_writes, outcome, result, nreq>>
    /\ UNCHANGED threads

\* the register-vars callback is entered while no request is in flight
RegisterVarsOutsideRequest ==
    /\ pc = "idle"
    /\ engine.registered_idle = << >>
    /\ engine' = [engine EXCEPT
                    !.registered_idle = ripht_sapi_register_server_variables(
                                            sapi_globals, server_ctx)]
    /\ UNCHANGED <<PHP_INIT_RESULT, sapi_globals, heap, server_ctx, pc, call,
                   trace, chunks, writes, twin, slot_writes, outcome, result, nreq>>
    /\ UNCHANGED threads

\* the engine calls the getenv callback
GetenvCall(e, g, ctx, name) ==
    [e EXCEPT !.getenv = [n |-> @.n + 1, name |-> name,
                          ret |-> ripht_sapi_getenv(g, ctx, name)]]

Getenv ==
    /\ EngineRunning
    /\ engine.ncalls < MaxCalls
    /\ \E name \in EnvNames :
         engine' = [GetenvCall(engine, sapi_globals, server_ctx, name)
                       EXCEPT !.ncalls = @ + 1]
    /\ UNCHANGED <<PHP_INIT_RESULT, sapi_globals, heap, server_ctx, pc, call,
                   trace, chunks, writes, twin, slot_writes, outcome, result, nreq>>
    /\ UNCHANGED threads

\* the getenv callback is entered while no request is in flight
GetenvOutsideRequest ==
    /\ pc = "idle"
    /\ engine.getenv.n = 0
    /\ \E name \in EnvNames :
         engine' = GetenvCall(engine, sapi_globals, server_ctx, name)
    /\ UNCHANGED <<PHP_INIT_RESULT, sapi_globals, heap, server_ctx, pc, call,
                   trace, chunks, writes, twin, slot_writes, outcome, result, nreq>>
    /\ UNCHANGED threads

\* the callbacks that look for the context in the slot, and the arguments
\* the engine passes to each
ContextCallbacks ==
    {"ub_write", "read_post", "read_cookies", "send_headers", "send_header",
     "flush", "log_message"}

CallbackArgs(cb) ==
    CASE cb = "ub_write"    -> Slices
      [] cb = "read_post"   -> ReadCounts
      [] cb = "send_header" -> RawHeaders
      [] cb = "log_message" -> LogLevels
      [] OTHER              -> {0}

\* one call of callback cb: the globals and the context afterwards and the
\* value returned (0 for a callback that returns nothing)
Callback(cb, g, ctx, arg) ==
    CASE cb = "ub_write" ->
           LET r == ripht_sapi_ub_write(g, ctx, arg)
           IN  [g |-> r.g, ctx |-> r.ctx, ret |-> r.ret]
      [] cb = "read_post" ->
           LET r == ripht_sapi_read_post(g, ctx, arg)
           IN  [g |-> g, ctx |-> r.ctx, ret |-> r.ret]
      [] cb = "read_cookies" ->
           [g |-> g, ctx |-> ctx, ret |-> ripht_sapi_read_cookies(g, ctx)]
      [] cb = "send_headers" ->
           LET r == ripht_sapi_send_headers(g, ctx)
           IN  [g |-> g, ctx |-> r.ctx, ret |-> r.ret]
      [] cb = "send_header" ->
           [g |-> g, ctx |-> ripht_sapi_send_header(g, ctx, arg), ret |-> 0]
      [] cb = "flush" ->
           LET r == ripht_sapi_flush(g, ctx)
           IN  [g |-> r.g, ctx |-> r.ctx, ret |-> 0]
      [] cb = "log_message" ->
           [g |-> g, ctx |-> ripht_sapi_log_message(g, ctx, arg), ret |-> 0]

\* a callback is entered while no request is in flight (the engine reports
\* or prints something between requests)
CallbackOutsideRequest ==
    /\ pc = "idle"
    /\ engine.outside.n = 0
    /\ \E cb \in ContextCallbacks :
         \E arg \in CallbackArgs(cb) :
           LET r == Callback(cb, sapi_globals, server_ctx, arg) IN
           /\ sapi_globals' = r.g
           /\ server_ctx' = r.ctx
           /\ engine' = [engine EXCEPT
                           !.outside = [n |-> 1, cb |-> cb, ret |-> r.ret]]
    /\ UNCHANGED <<PHP_INIT_RESULT, heap, pc, call, trace, chunks, writes,
                   twin, slot_writes, outcome, result, nreq>>
    /\ UNCHANGED threads

\* the engine knows the directive
KnownDirective(key) == key = "display_errors"

\* set_ini that interns the key before it looks at the value
set_ini_interns_first ==
    /\ pc = "idle"
    /\ PHP_INIT_RESULT = "ok"
    /\ \E key \in IniKeys, value \in IniValues :
         /\ call' = [NoCall EXCEPT !.mode = "set_ini", !.key = key,
                                   !.value = value]
         /\ IF HasNul(key)
            THEN /\ outcome' = "InvalidIniKey"
                 /\ trace' = << >>
                 /\ UNCHANGED engine
            ELSE IF HasNul(value)
            THEN /\ outcome' = "InvalidIniValue"
                 /\ trace' = <<Ev0("zend_string_init_interned")>>
                 /\ UNCHANGED engine
            ELSE /\ trace' = <<Ev0("zend_string_init_interned"),
                               Ev0("zend_alter_ini_entry_chars")>>
                 /\ IF KnownDirective(key)
                    THEN /\ engine' = zend_alter_ini_entry_chars(engine, value)
                         /\ outcome' = "Ok"
                    ELSE /\ outcome' = "IniSetFailed"
                         /\ UNCHANGED engine
    /\ pc' = "returned"
    /\ UNCHANGED <<PHP_INIT_RESULT, sapi_globals, heap, server_ctx, chunks,
                   writes, twin, slot_writes, result, nreq>>
    /\ UNCHANGED threads

\* RiphtSapi::set_ini, called on a handle between requests
set_ini ==
    /\ pc = "idle"
    /\ PHP_INIT_RESULT = "ok"
    /\ \E key \in IniKeys, value \in IniValues :
         /\ call' = [NoCall EXCEPT !.mode = "set_ini", !.key = key,
                                   !.value = value]
         /\ IF HasNul(key)
            THEN /\ outcome' = "InvalidIniKey"
                 /\ trace' = << >>
                 /\ UNCHANGED engine
            ELSE IF HasNul(value)
            THEN /\ outcome' = "InvalidIniValue"
                 /\ trace' = << >>
                 /\ UNCHANGED engine
            ELSE /\ trace' = <<Ev0("zend_string_init_interned"),
                               Ev0("zend_alter_ini_entry_chars")>>
                 /\ IF KnownDirective(key)
                    THEN /\ engine' = zend_alter_ini_entry_chars(engine, value)
                         /\ outcome' = "Ok"
                    ELSE /\ outcome' = "IniSetFailed"
                         /\ UNCHANGED engine
    /\ pc' = "returned"
    /\ UNCHANGED <<PHP_INIT_RESULT, sapi_globals, heap, server_ctx, chunks,
                   writes, twin, slot_writes, result, nreq>>
    /\ UNCHANGED threads

NextHost ==
    \/ RiphtSapi_init
    \/ set_ini
    \/ execute
    \/ OnContextCreated
    \/ OnRequestStarting
    \/ StartupSucceeds
    \/ StartupFails
    \/ FailedShutdownReturns
    \/ OnRequestStarted
    \/ OnScriptExecuting
    \/ ReadPost
    \/ RegisterVars
    \/ RegisterVarsOutsideRequest
    \/ Getenv
    \/ GetenvOutsideRequest
    \/ CallbackOutsideRequest
    \/ EngineSendHeaders
    \/ ScriptReturns
    \/ OnScriptExecuted
    \/ OnRequestFinishing
    \/ ShutdownReturns
    \/ AssembleResult
    \/ CallerContinues

SpecHost == Init /\ [][NextHost]_vars

\* ------------------------------------------------- concurrent init calls
\* RiphtSapi::init step by step, called from several threads. OnceLock's
\* get_or_init returns the stored value when there is one; otherwise one
\* caller runs the closure while the others wait, and the closure's value is
\* stored before anyone returns.
ClosurePcs == {"closure", "module_startup", "store"}
OnceRunning == \E u \in Threads : threads[u].pc \in ClosurePcs

\* a thread calls RiphtSapi::init (instance() is init followed by expect)
init_called(t) ==
    /\ pc = "idle"
    /\ threads[t].pc = "out"
    /\ threads[t].calls < MaxInitCalls
    /\ threads' = [threads EXCEPT ![t].pc = "get_or_init", ![t].calls = @ + 1,
                                  ![t].ret = "none", ![t].seen = "none"]
    /\ UNCHANGED <<PHP_INIT_RESULT, sapi_globals, engine, heap, server_ctx, pc,
                   call, trace, chunks, writes, twin, slot_writes, outcome,
                   result, nreq>>

\* a get_or_init that tests the cell and then runs the closure, with nothing
\* to keep a second caller out
get_or_init_unguarded(t) ==
    /\ threads[t].pc = "get_or_init"
    /\ IF PHP_INIT_RESULT # "unset"
       THEN threads' = [threads EXCEPT ![t].pc = "out",
                                       ![t].ret = PHP_INIT_RESULT]
       ELSE threads' = [threads EXCEPT ![t].pc = "closure"]
    /\ UNCHANGED <<PHP_INIT_RESULT, sapi_globals, engine, heap, server_ctx, pc,
                   call, trace, chunks, writes, twin, slot_writes, outcome,
                   result, nreq>>

\* PHP_INIT_RESULT.get_or_init and the match on its value
get_or_init(t) ==
    /\ threads[t].pc = "get_or_init"
    /\ IF PHP_INIT_RESULT # "unset"
       THEN threads' = [threads EXCEPT ![t].pc = "out",
                                       ![t].ret = PHP_INIT_RESULT]
       ELSE /\ ~OnceRunning
            /\ threads' = [threads EXCEPT ![t].pc = "closure"]
    /\ UNCHANGED <<PHP_INIT_RESULT, sapi_globals, engine, heap, server_ctx, pc,
                   call, trace, chunks, writes, twin, slot_writes, outcome,
                   result, nreq>>

\* the closure fills in sapi_module and calls sapi_startup
register_callbacks(t) ==
    /\ threads[t].pc = "closure"
    /\ threads' = [threads EXCEPT ![t].pc = "module_startup"]
    /\ engine' = [engine EXCEPT !.registrations = @ + 1]
    /\ UNCHANGED <<PHP_INIT_RESULT, sapi_globals, heap, server_ctx, pc, call,
                   trace, chunks, writes, twin, slot_writes, outcome, result,
                   nreq>>

\* the closure calls php_module_startup and turns its result into Ok or Err
php_module_startup(t) ==
    /\ threads[t].pc = "module_startup"
    /\ \E module_startup \in {SUCCESS, FAILURE} :
         threads' = [threads EXCEPT
                        ![t].pc = "store",
                        ![t].local = IF module_startup = FAILURE
                                     THEN "failed" ELSE "ok"]
    /\ engine' = [engine EXCEPT !.startups = @ + 1]
    /\ UNCHANGED <<PHP_INIT_RESULT, sapi_globals, heap, server_ctx, pc, call,
                   trace, chunks, writes, twin, slot_writes, outcome, result,
                   nreq>>

\* the closure returns and the cell takes its value
store_result(t) ==
    /\ threads[t].pc = "store"
    /\ PHP_INIT_RESULT' = threads[t].local
    /\ threads' = [threads EXCEPT ![t].pc = "get_or_init", ![t].local = "none"]
    /\ UNCHANGED <<sapi_globals, engine, heap, server_ctx, pc, call, trace,
                   chunks, writes, twin, slot_writes, outcome, result, nreq>>

\* RiphtSapi::is_initialized on the handle an Ok return gave
is_initialized(t) ==
    /\ threads[t].pc = "out"
    /\ threads[t].ret = "ok"
    /\ threads[t].seen = "none"
    /\ threads' = [threads EXCEPT
                     ![t].seen = IF PHP_INIT_RESULT = "ok" THEN "true"
                                 ELSE "false"]
    /\ UNCHANGED <<PHP_INIT_RESULT, sapi_globals, engine, heap, server_ctx, pc,
                   call, trace, chunks, writes, twin, slot_writes, outcome,
                   result, nreq>>

NextInit ==
    \/ \E t \in Threads : init_called(t)
    \/ \E t \in Threads : get_or_init(t)
    \/ \E t \in Threads : register_callbacks(t)
    \/ \E t \in Threads : php_module_startup(t)
    \/ \E t \in Threads : store_result(t)
    \/ \E t \in Threads : is_initialized(t)

SpecInit == Init /\ [][NextInit]_vars

\* --------------------------- threads that execute, each on its own handle
\* RiphtSapi is neither Send nor Sync, but RiphtSapi::instance() gives every
\* thread that calls it a handle of its own once the engine is initialized.
\* The context thread t boxes is named t; the executor takes no lock.
InFlight(t) == threads[t].pc \in {"installed", "called_back"}

\* thread t obtains a handle and calls execute: the precondition checks pass,
\* the context is boxed and its pointer is written into the slot
\* (executor.rs 130-152)
thread_installs(t) ==
    /\ PHP_INIT_RESULT = "ok"
    /\ threads[t].pc = "out"
    /\ threads[t].ran < MaxThreadRequests
    /\ threads' = [threads EXCEPT ![t].pc = "installed", ![t].ran = @ + 1,
                                  ![t].got = -1]
    /\ heap' = heap \cup {t}
    /\ sapi_globals' = InstallContext(sapi_globals, t)
    /\ UNCHANGED <<PHP_INIT_RESULT, engine, server_ctx, pc, call, trace,
                   chunks, writes, twin, slot_writes, outcome, result, nreq>>

\* the engine, running thread t's request, enters a callback, which takes
\* the context from the slot
thread_called_back(t) ==
    /\ threads[t].pc = "installed"
    /\ threads' = [threads EXCEPT ![t].pc = "called_back",
                                  ![t].got = get_context(sapi_globals)]
    /\ UNCHANGED <<PHP_INIT_RESULT, sapi_globals, engine, heap, server_ctx, pc,
                   call, trace, chunks, writes, twin, slot_writes, outcome,
                   result, nreq>>

\* request shutdown has returned on thread t: the slot is nulled and the
\* thread's own Box is reclaimed (executor.rs 190-192)
thread_clears(t) ==
    /\ InFlight(t)
    /\ threads' = [threads EXCEPT ![t].pc = "out"]
    /\ sapi_globals' = ClearContext(sapi_globals)
    /\ heap' = heap \ {t}
    /\ UNCHANGED <<PHP_INIT_RESULT, engine, server_ctx, pc, call, trace,
                   chunks, writes, twin, slot_writes, outcome, result, nreq>>

NextConcurrent ==
    \/ RiphtSapi_init
    \/ \E t \in Threads : thread_installs(t)
    \/ \E t \in Threads : thread_called_back(t)
    \/ \E t \in Threads : thread_clears(t)

SpecConcurrent == Init /\ [][NextConcurrent]_vars

\* ------------------------------------------------ header lines in detail
\* One request, taken from the point where php_execute_script starts, with
\* header lines of every shape ResponseHeader::parse distinguishes.
MaxLines == 2         \* header lines a script emits

\* "A", "a", "B" are letters, "X" a byte that is not valid UTF-8
HeaderLines ==
    {<<"A", ":", " ", "v">>,       \* Name: value
     <<"A", ":", "w">>,            \* the same name again, no space
     <<"a", ":", "u">>,            \* the same name in lower case
     <<"B">>,                      \* no colon
     <<":", "v">>,                 \* colon at offset 0
     <<" ", ":", "v">>,            \* name empty after trimming
     <<"X", ":", "v">>,            \* name not UTF-8
     <<"A", ":">>,                 \* Name: and nothing else
     <<"B", ":", " ", " ">>,       \* Name: and whitespace only
     <<" ", "B", " ", ":", "X">>}  \* padded name, value not UTF-8

\* executor.rs 145-179: what execute_with_hooks has invoked when
\* php_execute_script starts
TraceAtScript(path) ==
    <<Ev0("on_context_created"),
      Ev0("on_request_starting"),
      Ev0("php_request_startup"),
      Ev0("on_request_started"),
      Ev("on_script_executing", <<path>>, << >>, 0, << >>),
      Ev0("php_execute_script")>>

\* the hook types of the header scenarios: NoOpHooks and a type whose
\* on_header turns down the headers named "A"
HeaderHooks ==
    {NoOpHooks,
     [kind |-> "Custom", panic_at |-> "none", reject |-> {<<"A">>}, alive |-> TRUE,
      on_output |-> "Buffer"]}

\* the first request of a process, run through execute or execute_with_hooks,
\* at the start of php_execute_script
InitHeader ==
    LET req == [input |-> << >>, has_vars |-> FALSE, ini |-> << >>, env |-> << >>,
     vars |-> << >>, log_to_stderr |-> FALSE]
        ctx == ServerContext_from(req)
    IN  /\ threads = [t \in Threads |-> NoThread]
        /\ PHP_INIT_RESULT = "ok"
        /\ server_ctx = ctx
        /\ sapi_globals = EngineActivate(InstallRequest(NoGlobals, ctx, 1), ctx)
        /\ engine = [EngineRequestBegins(NoEngine) EXCEPT !.registrations = 1,
                                                          !.startups = 1]
        /\ heap = {1}
        /\ pc = "in_script"
        /\ \E hooks \in HeaderHooks :
             call = [mode |-> "hooks", hooks |-> hooks, id |-> 1,
                     path |-> "valid", success |-> FALSE, req |-> req,
                     key |-> "", value |-> ""]
        /\ trace = TraceAtScript("valid")
        /\ chunks = << >>
        /\ writes = << >>
        /\ twin = ctx
        /\ slot_writes = 1
        /\ outcome = "none"
        /\ result = NoResult
        /\ nreq = 1

\* the script adds a line to the engine's header list (header())
EmitHeader ==
    /\ pc = "in_script"
    /\ sapi_globals.headers_sent = 0
    /\ Len(sapi_globals.headers) < MaxLines
    /\ \E raw \in HeaderLines :
         /\ sapi_globals' = [sapi_globals EXCEPT !.headers = Append(@, raw)]
         /\ engine' = [engine EXCEPT !.emitted = Append(@, raw)]
    /\ UNCHANGED <<PHP_INIT_RESULT, heap, server_ctx, pc, call, trace, chunks,
                   writes, twin, slot_writes, outcome, result, nreq>>
    /\ UNCHANGED threads

NextHeader ==
    \/ EmitHeader
    \/ UbWrite
    \/ Flush
    \/ EngineSendHeaders
    \/ ScriptReturns
    \/ OnScriptExecuted
    \/ OnRequestFinishing
    \/ ShutdownReturns
    \/ AssembleResult

SpecHeader == InitHeader /\ [][NextHeader]_vars

\* ================================================================ claims
Returned(o) == pc = "returned" /\ outcome = o
Slot == sapi_globals.server_context
\* the slices of the write-output calls, in call order
WrittenSlices == [i \in 1..Len(writes) |-> writes[i].data]

RECURSIVE NonEmptyOnly(_)
NonEmptyOnly(ss) ==
    IF ss = << >> THEN << >>
    ELSE (IF Head(ss) # << >> THEN <<Head(ss)>> ELSE << >>) \o NonEmptyOnly(Tail(ss))

\* the last call was turned down by the precondition checks
Rejected ==
    pc = "returned"
    /\ outcome \in {"NotInitialized", "ScriptNotFound", "InvalidPath"}

\* the engine-side state a later request starts from
EngineView == <<PHP_INIT_RESULT, sapi_globals, engine, heap>>

\* C1: whenever an execute call has returned (Ok, StartupFailed,
\* ScriptNotFound, InvalidPath or NotInitialized), the slot is null.
C1_SlotNullAfterReturn ==
    (pc = "returned" /\ outcome \in {"Ok", "StartupFailed", "ScriptNotFound",
                                     "InvalidPath", "NotInitialized"})
        => Slot = NULL

\* C2: when a hook that runs while the slot is installed panics and the
\* panic has unwound out of execute_with_hooks, the slot is null.
C2_SlotNullAfterUnwind ==
    (Returned("panicked") /\ call.hooks.panic_at \in InstalledHooks)
        => Slot = NULL

\* C3: a call rejected with NotInitialized or ScriptNotFound has written
\* neither the slot nor any request-info field, has called no engine
\* primitive and no hook, and leaves everything a following request starts
\* from as it was.
C3_RejectTouchesNothing ==
    [][(pc = "idle" /\ pc' = "returned"
        /\ outcome' \in {"NotInitialized", "ScriptNotFound"})
       => (EngineView' = EngineView /\ trace' = << >> /\ slot_writes' = 0)]_vars

C3_Witness ==
    /\ Returned("ScriptNotFound")
    /\ nreq = 2
    /\ sapi_globals.request_info.request_method # NULL

\* the events of executor.rs 145-189 for a request whose startup succeeds
LifecycleEvents ==
    <<Ev0("on_context_created"),
      Ev0("on_request_starting"),
      Ev0("php_request_startup"),
      Ev0("on_request_started"),
      Ev("on_script_executing", <<call.path>>, << >>, 0, << >>),
      Ev0("php_execute_script"),
      Ev("on_script_executed", << >>, << >>, IF call.success THEN 1 ELSE 0, << >>),
      Ev0("on_request_finishing"),
      Ev0("php_request_shutdown")>>

\* the headers captured by the context when it was reclaimed
CapturedHeaders ==
    IF IsNoOp(call.hooks) THEN result.headers ELSE server_ctx.response_headers

OnHeaderCalls == [i \in 1..Len(CapturedHeaders) |->
                    Ev("on_header", CapturedHeaders[i].name,
                       CapturedHeaders[i].value, 0, << >>)]

OnMessageCalls == [i \in 1..Len(result.messages) |->
                     Ev("on_php_message", <<result.messages[i].level>>,
                        <<result.messages[i].message>>, 0, << >>)]

AfterHeaderCalls ==
    <<Ev("on_status", << >>, << >>, result.status, << >>)>>
    \o OnMessageCalls
    \o <<Ev("on_output", << >>, << >>, 0, server_ctx.output_buffer),
         Ev0("on_request_finished")>>

\* C4 as stated: a request of execute_with_hooks whose startup succeeds
\* produces the lifecycle events in the fixed order, with on_header once per
\* captured header, whatever the hook type.
C4_FixedOrderAnyHooks ==
    (Returned("Ok") /\ call.mode = "hooks")
        => trace = LifecycleEvents \o OnHeaderCalls \o AfterHeaderCalls

\* C4 amended: the same order, with on_header once per captured header for a
\* hook type other than NoOpHooks and not at all for NoOpHooks.
C4_FixedOrder ==
    (Returned("Ok") /\ call.mode = "hooks")
        => trace = LifecycleEvents
                   \o (IF call.hooks.kind = "NoOp" THEN << >> ELSE OnHeaderCalls)
                   \o AfterHeaderCalls

C4_Witness ==
    /\ Returned("Ok")
    /\ call.mode = "hooks"
    /\ call.hooks.kind = "Custom"
    /\ Len(CapturedHeaders) >= 1
    /\ Len(result.messages) >= 1

\* C5: while on_context_created is being invoked, the request's
\* ServerContext exists and is installed in the slot.
C5_ContextExistsWhenHookFires ==
    pc = "on_context_created" => (call.id \in heap /\ Slot = call.id)

\* C6: a request whose startup fails has its context dropped before request
\* shutdown is entered, calls request shutdown exactly once, clears the slot
\* and returns StartupFailed without running the script, applying ini
\* overrides or invoking any later hook.
C6_StartupFailure ==
    /\ pc = "in_failed_shutdown" => call.id \notin heap
    /\ Returned("StartupFailed") =>
         /\ Slot = NULL
         /\ call.id \notin heap
         /\ engine.ini_applied = 0
         /\ writes = << >> /\ chunks = << >>
         /\ trace = IF call.mode = "hooks"
                    THEN <<Ev0("on_context_created"), Ev0("on_request_starting"),
                           Ev0("php_request_startup"), Ev0("php_request_shutdown")>>
                    ELSE <<Ev0("php_request_startup"), Ev0("php_request_shutdown")>>
    /\ (pc = "returned" /\ outcome # "Ok") => result = NoResult

C6_Witness ==
    /\ Returned("StartupFailed")
    /\ call.mode = "hooks"
    /\ call.hooks.kind = "Custom"

\* program points at which the request's context is installed
InstalledPcs ==
    {"on_request_starting", "in_startup", "on_request_started",
     "on_script_executing", "in_script", "on_script_executed",
     "on_request_finishing", "in_shutdown", "in_failed_shutdown"}

C8_BodyIsConcatenation ==
    (call.mode = "hooks" /\ call.hooks.on_output = "Buffer") =>
        /\ \A i \in 1..Len(writes) : writes[i].ret = Len(writes[i].data)
        /\ Returned("Ok") => result.body = Flatten(WrittenSlices)

C8_Witness ==
    /\ Returned("Ok")
    /\ call.mode = "hooks"
    /\ call.hooks.on_output = "Buffer"
    /\ Len(writes) = 2
    /\ writes[1].data = <<2, 3>>
    /\ writes[2].data = <<1>>

\* C9: in execute_streaming the callback receives exactly the non-empty
\* engine writes, one call each, in write order, as they happen; the output
\* buffer stays empty and the returned body is empty.
C9_StreamingChunks ==
    (call.mode = "streaming" /\ ~Rejected) =>
        /\ chunks = NonEmptyOnly(WrittenSlices)
        /\ server_ctx.output_buffer = << >>
        /\ Returned("Ok") => result.body = << >>

C9_Witness ==
    /\ Returned("Ok")
    /\ call.mode = "streaming"
    /\ Len(writes) = 2
    /\ Len(chunks) = 1

\* C10: the concatenation of the chunks streamed by execute_streaming equals
\* the body the non-streaming execute returns for the same engine writes.
C10_StreamEqualsBuffered ==
    (Returned("Ok") /\ call.mode = "streaming")
        => Flatten(chunks) = AssembledResult(NoOpHooks, twin).body

C10_Witness ==
    /\ Returned("Ok")
    /\ call.mode = "streaming"
    /\ Len(chunks) = 2
    /\ chunks[1] # chunks[2]

\* the send-headers callback runs in this step: the engine marks the headers
\* as sent while a context is installed
SendHeadersRuns ==
    /\ sapi_globals.headers_sent = 0
    /\ sapi_globals'.headers_sent = 1
    /\ Slot # NULL

\* C11: when the send-headers callback runs with engine response code c, the
\* context status becomes c if 100 <= c <= 599 and 500 otherwise; the status
\* of every returned result lies in 100..599.
C11_StatusClamped ==
    /\ [][SendHeadersRuns =>
            server_ctx'.status_code =
                (IF 100 <= sapi_globals.http_response_code
                    /\ sapi_globals.http_response_code <= 599
                 THEN sapi_globals.http_response_code ELSE 500)]_vars
    /\ [](Returned("Ok") => (100 <= result.status /\ result.status <= 599))

C11_Witness ==
    /\ Returned("Ok")
    /\ sapi_globals.headers_sent = 1
    /\ sapi_globals.http_response_code = 65736
    /\ result.status = 500

\* C12: a request in which the script never sets a status returns status
\* 200, whatever an earlier request left behind.
C12_DefaultStatus ==
    (Returned("Ok") /\ ~engine.status_set) => result.status = 200

C12_Witness ==
    /\ Returned("Ok")
    /\ nreq = 2
    /\ ~engine.status_set
    /\ sapi_globals.headers_sent = 1
    /\ result.status = 200

\* What a header line contributes to the header list, written from the
\* shape of the line: nothing when it has no colon, the colon first, a name
\* that is blank or not UTF-8; otherwise the trimmed name with the bytes
\* after the colon and its whitespace (invalid bytes replaced).
ColonAt(l) == memchr(":", l, 1)
NameOf(l) == SubSeq(l, 1, ColonAt(l))
RestOf(l) == SubSeq(l, ColonAt(l) + 2, Len(l))
IsBlank(bytes) == \A i \in 1..Len(bytes) : bytes[i] = " "
NoEntry(l) ==
    \/ ColonAt(l) = -1
    \/ ColonAt(l) = 0
    \/ IsBlank(NameOf(l))
    \/ \E i \in 1..Len(NameOf(l)) : NameOf(l)[i] = "X"
ExpectedEntry(l) ==
    IF NoEntry(l) THEN << >>
    ELSE IF IsBlank(RestOf(l)) THEN <<[name |-> Trim(NameOf(l)), value |-> << >>]>>
    ELSE <<[name |-> Trim(NameOf(l)), value |-> Utf8Lossy(TrimStart(RestOf(l)))]>>

EmittedHeaders(lines) ==
    Flatten([i \in 1..Len(lines) |-> ExpectedEntry(lines[i])])

\* the values emitted under `name` (letter case aside), in emission order
RECURSIVE EmittedValues(_, _)
EmittedValues(hs, name) ==
    IF hs = << >> THEN << >>
    ELSE (IF EqIgnoreAsciiCase(Head(hs).name, name)
          THEN <<Head(hs).value>> ELSE << >>)
         \o EmittedValues(Tail(hs), name)

HeaderNames == {<<"A">>, <<"B">>}

\* C13: a header name emitted k times gives exactly k entries of that name
\* in the result, in emission order, each returned by header_vals; nothing
\* is merged or de-duplicated (for hooks whose on_header keeps every header).
C13_DuplicatesKept ==
    (Returned("Ok") /\ call.hooks.reject = {}) =>
        /\ result.headers = EmittedHeaders(engine.emitted)
        /\ \A name \in HeaderNames :
             header_vals(result.headers, name)
                = EmittedValues(EmittedHeaders(engine.emitted), name)

C13_Witness ==
    /\ Returned("Ok")
    /\ engine.emitted = << <<"A", ":", " ", "v">>, <<"A", ":", " ", "v">> >>
    /\ header_vals(result.headers, <<"A">>) = << <<"v">>, <<"v">> >>

RECURSIVE IsPrefix(_, _)
IsPrefix(a, b) ==
    \/ a = << >>
    \/ b # << >> /\ Head(a) = Head(b) /\ IsPrefix(Tail(a), Tail(b))

C15_MalformedDropped ==
    (sapi_globals.headers_sent = 1 /\ Slot # NULL)
        => server_ctx.response_headers = EmittedHeaders(engine.emitted)

C15_Witness ==
    /\ sapi_globals.headers_sent = 1
    /\ Slot # NULL
    /\ engine.emitted = << <<" ", ":", "v">>, <<"B", ":", " ", " ">> >>
    /\ server_ctx.response_headers = <<[name |-> <<"B">>, value |-> << >>]>>

\* C16: every read-post call copies n = min(buffer length, unread bytes)
\* bytes starting at the cursor and returns n; the cursor is the sum of the
\* lengths returned so far and never exceeds the input length; the bytes
\* handed out, concatenated, are a prefix of the request input; a call made
\* once the input is exhausted returns 0.
RECURSIVE SumRet(_, _)
SumRet(rs, n) == IF n = 0 THEN 0 ELSE SumRet(rs, n - 1) + rs[n].ret

ReadData(rs) == Flatten([i \in 1..Len(rs) |-> rs[i].data])

C16_ReadPostBounded ==
    LET rs    == engine.reads
        input == call.req.input
    IN  /\ \A i \in 1..Len(rs) :
             LET cursor == SumRet(rs, i - 1)
                 unread == Len(input) - cursor
             IN  /\ rs[i].ret = (IF rs[i].count < unread THEN rs[i].count ELSE unread)
                 /\ rs[i].data = SubSeq(input, cursor + 1, cursor + rs[i].ret)
                 /\ (unread = 0 => rs[i].ret = 0)
        /\ server_ctx.post_position = SumRet(rs, Len(rs))
        /\ server_ctx.post_position <= Len(input)
        /\ IsPrefix(ReadData(rs), input)

C16_Witness ==
    /\ pc = "in_script"
    /\ call.req.input = <<7, 8, 9>>
    /\ Len(engine.reads) = 2
    /\ engine.reads[1] = [count |-> 4, data |-> <<7, 8, 9>>, ret |-> 3]
    /\ engine.reads[2] = [count |-> 2, data |-> << >>, ret |-> 0]
    /\ server_ctx.post_position = 3

\* C18: set_ini returns InvalidIniKey when the key holds a NUL byte, and
\* InvalidIniValue when the key is clean and the value holds one; in both
\* cases no engine INI primitive has been called and the engine's INI state
\* and the SAPI globals are what they were.
SetIniStep == pc = "idle" /\ pc' = "returned" /\ call'.mode = "set_ini"

C18_SetIniRejectsNul ==
    [][SetIniStep =>
        /\ HasNul(call'.key) => outcome' = "InvalidIniKey"
        /\ (~HasNul(call'.key) /\ HasNul(call'.value))
              => outcome' = "InvalidIniValue"
        /\ (HasNul(call'.key) \/ HasNul(call'.value))
              => /\ trace' = << >>
                 /\ engine' = engine
                 /\ sapi_globals' = sapi_globals]_vars

C18_Witness ==
    /\ pc = "returned"
    /\ call.mode = "set_ini"
    /\ call.key = "display_errors"
    /\ call.value = "x0y"
    /\ outcome = "InvalidIniValue"
    /\ trace = << >>
    /\ engine.ini = "0"
    /\ engine.ini_modified

\* C20: a getenv call made while a request's context is installed returns
\* the value of the first env override of that request whose key is the
\* requested name, and null when that request has no override under the name;
\* a call made while no context is installed returns null. Overrides of an
\* earlier request are not among the answers.
RECURSIVE FirstOverride(_, _)
FirstOverride(env, name) ==
    IF env = << >> THEN << >>
    ELSE IF /\ Head(env).k = name
            /\ Head(env).k # "x0y"
            /\ Head(env).v # "x0y"
         THEN <<Head(env).v>>
         ELSE FirstOverride(Tail(env), name)

GetenvStep == engine'.getenv.n = engine.getenv.n + 1

C19_OverrideRequestScoped ==
    /\ pc \in {"on_context_created", "on_request_starting"}
          => engine.ini_applied = 0
    /\ (pc = "in_script" /\ call.req.ini = << >>) => engine.ini = NoEngine.ini

\* C17: whatever the number of init calls and however the threads
\* interleave, callback registration and engine startup run at most once; the
\* memoized outcome, once set, never changes; every call returns the
\* memoized outcome; is_initialized gives the same answer on every handle.
C17_InitOnce ==
    /\ [][PHP_INIT_RESULT # "unset" => PHP_INIT_RESULT' = PHP_INIT_RESULT]_vars
    /\ [](/\ engine.registrations <= 1
          /\ engine.startups <= 1
          /\ \A t \in Threads :
               /\ threads[t].ret # "none" => threads[t].ret = PHP_INIT_RESULT
               /\ \A u \in Threads :
                    (threads[t].seen # "none" /\ threads[u].seen # "none")
                       => threads[t].seen = threads[u].seen)

C17_Witness ==
    /\ threads[1].calls = 2
    /\ threads[2].calls = 1
    /\ \A t \in {1, 2} :
         /\ threads[t].pc = "out"
         /\ threads[t].ret = "ok"
         /\ threads[t].seen = "true"
    /\ engine.startups = 1
    /\ engine.registrations = 1

\* C21: the pairs a request's register-vars callback has registered are the
\* server identity followed by that request's own meta-variables (those
\* free of NUL bytes), whatever the requests before it carried.
RECURSIVE OwnVars(_)
OwnVars(vs) ==
    IF vs = << >> THEN << >>
    ELSE (IF Head(vs).k = "x0y" \/ Head(vs).v = "x0y" THEN << >>
          ELSE <<Head(vs)>>) \o OwnVars(Tail(vs))

C21_OwnVarsOnly ==
    engine.registered # << >>
        => engine.registered
             = <<[k |-> "SERVER_SOFTWARE", v |-> "ripht"]>> \o OwnVars(call.req.vars)

C21_Witness ==
    /\ nreq = 2
    /\ pc = "in_script"
    /\ engine.registered = <<[k |-> "SERVER_SOFTWARE", v |-> "ripht"],
                             [k |-> "SERVER_NAME", v |-> "b"]>>

\* C22: when php_execute_script has reported failure and no hook panics,
\* execute_with_hooks returns Ok: on_script_executed was called with false,
\* then on_request_finishing and request shutdown, the slot is null, the
\* context is reclaimed, and the result hooks follow (on_header for a hook
\* type other than NoOpHooks, on_status, on_php_message per message,
\* on_output) ending with on_request_finished.
EventNames == [i \in 1..Len(trace) |-> trace[i].ev]

Repeat(name, n) == [i \in 1..n |-> name]

C22_ScriptFailureStillOk ==
    (pc = "returned" /\ call.mode = "hooks" /\ ~call.success
     /\ Calls(trace, "php_execute_script") /\ outcome # "panicked")
        => /\ outcome = "Ok"
           /\ Slot = NULL
           /\ call.id \notin heap
           /\ trace[7] = Ev("on_script_executed", << >>, << >>, 0, << >>)
           /\ EventNames =
                <<"on_context_created", "on_request_starting",
                  "php_request_startup", "on_request_started",
                  "on_script_executing", "php_execute_script",
                  "on_script_executed", "on_request_finishing",
                  "php_request_shutdown">>
                \o Repeat("on_header", IF call.hooks.kind = "NoOp" THEN 0
                                       ELSE Len(server_ctx.response_headers))
                \o <<"on_status">>
                \o Repeat("on_php_message", Len(result.messages))
                \o <<"on_output", "on_request_finished">>

C22_Witness ==
    /\ Returned("Ok")
    /\ call.mode = "hooks"
    /\ call.hooks.kind = "Custom"
    /\ ~call.success
    /\ Len(result.headers) = 1
    /\ result.body # << >>

\* C23: no panic of Rust code inside a callback leaves the callback: the
\* process never aborts inside a callback, and a write-output call in which
\* the output closure panicked returned 0.
C23_CallbacksContainPanics ==
    /\ pc # "aborted"
    /\ \A i \in 1..Len(writes) : writes[i].panicked => writes[i].ret = 0

\* C24: with a hook type other than NoOpHooks, the on_header calls of a
\* request are one per captured header, in capture order, all of them after
\* php_request_shutdown was called; the result's headers are the captured
\* headers the hook kept, in capture order.
IsOnHeader(e) == e.ev = "on_header"

C24_OnHeaderFilters ==
    (Returned("Ok") /\ call.hooks.kind = "Custom") =>
        LET captured == EmittedHeaders(engine.emitted)
            Kept(h)  == h.name \notin call.hooks.reject
        IN  /\ SelectSeq(trace, IsOnHeader)
                 = [i \in 1..Len(captured) |->
                      Ev("on_header", captured[i].name, captured[i].value,
                         0, << >>)]
            /\ \A i \in 1..Len(trace) :
                 IsOnHeader(trace[i])
                    => \E j \in 1..(i - 1) : trace[j].ev = "php_request_shutdown"
            /\ result.headers = SelectSeq(captured, Kept)

C24_Witness ==
    /\ Returned("Ok")
    /\ call.hooks.kind = "Custom"
    /\ engine.emitted = << <<"A", ":", " ", "v">>, <<"a", ":", "u">> >>
    /\ result.headers = <<[name |-> <<"a">>, value |-> <<"u">>]>>

\* C25 as stated: every execute_with_hooks request that has reached request
\* shutdown (and in which no hook panicked) has called on_output exactly
\* once, after the shutdown, with the whole output.
IsOnOutput(e) == e.ev = "on_output"
OnOutputCalls == SelectSeq(trace, IsOnOutput)

C25_OnOutputOncePerShutdown ==
    (pc = "returned" /\ call.mode = "hooks" /\ outcome # "panicked"
     /\ Calls(trace, "php_request_shutdown"))
        => OnOutputCalls
             = <<Ev("on_output", << >>, << >>, 0, Flatten(WrittenSlices))>>

\* C25 amended: a request of execute_with_hooks that returns Ok has called
\* on_output exactly once, after php_request_shutdown, with the whole
\* accumulated output (empty when nothing was written); the body of the
\* result is that output when the hook answers Buffer and empty when it
\* answers Handled.
C25_OnOutputOnce ==
    (Returned("Ok") /\ call.mode = "hooks") =>
        /\ OnOutputCalls
             = <<Ev("on_output", << >>, << >>, 0, Flatten(WrittenSlices))>>
        /\ \A i \in 1..Len(trace) :
             IsOnOutput(trace[i])
                => \E j \in 1..(i - 1) : trace[j].ev = "php_request_shutdown"
        /\ call.hooks.on_output = "Buffer" => result.body = Flatten(WrittenSlices)
        /\ call.hooks.on_output = "Handled" => result.body = << >>

C25_Witness ==
    /\ Returned("Ok")
    /\ call.mode = "hooks"
    /\ call.hooks.on_output = "Handled"
    /\ Flatten(WrittenSlices) # << >>
    /\ result.body = << >>

\* C26: the lifecycle states of a request of execute_with_hooks, named by
\* the hook that announces each, are visited in the order on_context_created,
\* on_request_starting, on_request_started, on_script_executing,
\* on_script_executed, on_request_finishing, on_request_finished, none
\* skipped or repeated, the only other move being from on_request_starting
\* to StartupFailed; the call takes no step once it has returned; and a call
\* that has begun reaches exactly one of the two terminal states unless a
\* hook panics or the process is aborted inside a primitive.
StateOrder ==
    <<"on_context_created", "on_request_starting", "on_request_started",
      "on_script_executing", "on_script_executed", "on_request_finishing",
      "on_request_finished">>

IsState(e) == \E i \in 1..Len(StateOrder) : StateOrder[i] = e.ev

StatesVisited ==
    LET hooks == SelectSeq(trace, IsState) IN
    [i \in 1..Len(hooks) |-> hooks[i].ev]
    \o (IF pc = "returned" /\ outcome = "StartupFailed"
        THEN <<"StartupFailed">> ELSE << >>)

FailureExit == <<"on_context_created", "on_request_starting", "StartupFailed">>

InOrder(sts) ==
    \/ sts = FailureExit
    \/ /\ Len(sts) <= Len(StateOrder)
       /\ sts = SubSeq(StateOrder, 1, Len(sts))

RequestFinished == Returned("Ok") /\ StatesVisited = StateOrder
StartupFailed == Returned("StartupFailed") /\ StatesVisited = FailureExit
NonReturning == pc = "aborted" \/ (pc = "returned" /\ outcome = "panicked")

OrderKept ==
    call.mode = "hooks" =>
        /\ InOrder(StatesVisited)
        /\ Returned("Ok") => RequestFinished
        /\ Returned("StartupFailed") => StartupFailed

C26_StrictOrder ==
    /\ []OrderKept
    /\ [][(call.mode = "hooks" /\ pc = "returned")
            => (pc' = "idle" /\ call' = NoCall /\ trace' = << >>)]_vars
    /\ (call.mode = "hooks" /\ pc = "on_context_created")
          ~> ((call.mode = "hooks"
               /\ (RequestFinished \/ StartupFailed)
               /\ ~(RequestFinished /\ StartupFailed))
              \/ NonReturning)

C26_Witness ==
    /\ call.mode = "hooks"
    /\ call.hooks.kind = "Custom"
    /\ RequestFinished
    /\ engine.ncalls = 1

C26_WitnessFailed == call.mode = "hooks" /\ StartupFailed

\* C27: when the engine calls the flush callback during a request of
\* execute_with_hooks, the hook's on_flush is called.
C27_FlushReachesHook ==
    [][(Flush /\ call.mode = "hooks" /\ Slot # NULL)
        => trace' = Append(trace, Ev0("on_flush"))]_vars

\* C28: once a call has returned Ok or StartupFailed and its context is
\* freed, none of the engine's request-info pointers (request method,
\* content type, query string, cookie data) still points into that context.
RequestInfoPointers ==
    {sapi_globals.request_info.request_method,
     sapi_globals.request_info.content_type,
     sapi_globals.request_info.query_string,
     sapi_globals.request_info.cookie_data}

C28_NoStaleRequestInfo ==
    ((Returned("Ok") \/ Returned("StartupFailed")) /\ call.id \notin heap)
        => call.id \notin RequestInfoPointers

\* C29: whenever the slot is non-null it points to a context that has not
\* been dropped, also while php_request_shutdown runs.
C29_SlotPointsToLiveContext == Slot # NULL => Slot \in heap

\* C30: a request run with NoOpHooks and the same request run with a hook
\* type that keeps every header and answers Buffer return the same header
\* list, status, messages and body.
KeepAllHooks ==
    [kind |-> "Custom", panic_at |-> "none", reject |-> {}, on_output |-> "Buffer",
     alive |-> TRUE]

C30_FastPathEquivalent ==
    (Returned("Ok") /\ call.mode = "hooks"
     /\ call.hooks \in {NoOpHooks, KeepAllHooks})
        => /\ result = AssembledResult(NoOpHooks, twin)
           /\ result = AssembledResult(KeepAllHooks, twin)

C30_Witness ==
    /\ Returned("Ok")
    /\ call.mode = "hooks"
    /\ IsNoOp(call.hooks)
    /\ Len(result.headers) = 1
    /\ result.body # << >>
    /\ result = AssembledResult(KeepAllHooks, twin)

C30_WitnessKeepAll ==
    /\ Returned("Ok")
    /\ call.hooks = KeepAllHooks
    /\ Len(result.headers) = 1
    /\ result.body # << >>

\* C31: every log-message callback made while a request's context is
\* installed appends exactly one message; a request of execute_with_hooks
\* that returns Ok has replayed the captured messages through on_php_message
\* in emission order, after on_status and before on_output, and its result
\* holds the whole captured list in that order.
IsOnPhpMessage(e) == e.ev = "on_php_message"

Position(evs, name) == CHOOSE i \in 1..Len(evs) : evs[i].ev = name

MessagesReplayed ==
    (Returned("Ok") /\ call.mode = "hooks") =>
        LET captured == twin.messages IN
        /\ SelectSeq(trace, IsOnPhpMessage)
             = [i \in 1..Len(captured) |-> MessageEvent(captured[i])]
        /\ \A i \in 1..Len(trace) :
             IsOnPhpMessage(trace[i])
                => Position(trace, "on_status") < i /\ i < Position(trace, "on_output")
        /\ result.messages = captured

C31_MessagesKept ==
    /\ [][(LogMessage /\ Slot # NULL)
            => Len(server_ctx'.messages) = Len(server_ctx.messages) + 1]_vars
    /\ []MessagesReplayed

\* the same, for the callbacks that return
C31_ReturningCallbacks ==
    /\ [][(LogMessage /\ Slot # NULL /\ pc' # "aborted")
            => Len(server_ctx'.messages) = Len(server_ctx.messages) + 1]_vars
    /\ []MessagesReplayed

\* C32: the register-vars callback registers SERVER_SOFTWARE first and then
\* the meta-variable pairs of the installed context, in the order they were
\* set and with repeated keys kept (the pairs the context holds are those
\* free of NUL bytes); entered with no context installed it registers
\* SERVER_SOFTWARE alone.
C32_IdentityThenPairs ==
    /\ engine.registered # << >> =>
          /\ Head(engine.registered) = [k |-> "SERVER_SOFTWARE", v |-> "ripht"]
          /\ Tail(engine.registered) = OwnVars(call.req.vars)
    /\ engine.registered_idle # << >> =>
          engine.registered_idle = <<[k |-> "SERVER_SOFTWARE", v |-> "ripht"]>>

C32_Witness ==
    /\ pc = "in_script"
    /\ engine.registered_idle # << >>
    /\ engine.registered = <<[k |-> "SERVER_SOFTWARE", v |-> "ripht"],
                             [k |-> "Y", v |-> "2"], [k |-> "Y", v |-> "1"]>>

\* C33: a callback entered while the slot is null returns its default and
\* changes no context: write-output and read-post return 0, read-cookies
\* and getenv return null, send-headers returns SAPI_HEADER_SEND_FAILED,
\* and send-header, flush and log-message record nothing.
OutsideStep == engine'.outside.n = engine.outside.n + 1

SafeDefault(cb) ==
    CASE cb = "ub_write"     -> 0
      [] cb = "read_post"    -> 0
      [] cb = "read_cookies" -> NULL
      [] cb = "send_headers" -> SAPI_HEADER_SEND_FAILED
      [] OTHER               -> 0

C33_NullSlotDefaults ==
    /\ [][(OutsideStep /\ Slot = NULL) =>
            /\ engine'.outside.ret = SafeDefault(engine'.outside.cb)
            /\ server_ctx' = server_ctx
            /\ server_ctx'.messages = << >>
            /\ server_ctx'.response_headers = << >>
            /\ server_ctx'.output_buffer = << >>
            /\ server_ctx'.post_position = 0]_vars
    /\ [][(GetenvStep /\ Slot = NULL) => engine'.getenv.ret = << >>]_vars

C33_Witness ==
    /\ pc = "idle"
    /\ Slot = NULL
    /\ nreq = 1
    /\ engine.outside = [n |-> 1, cb |-> "log_message", ret |-> 0]
    /\ engine.getenv.n = 1

\* C34: what is_connection_alive answers has no effect: a request of
\* execute_with_hooks that returns Ok has made the engine calls and hook
\* calls, and returns the result, that the same request makes and returns
\* with a hook object that differs only in that answer.
OtherAnswer(hooks) == [hooks EXCEPT !.alive = ~@]

C35_ShutdownRejects ==
    engine.shutdowns > 0 =>
        /\ PHP_INIT_RESULT # "ok"
        /\ pc # "idle" => (Returned("NotInitialized")
                           /\ ~Calls(trace, "php_request_startup"))

\* C35 amended: RiphtSapi::shutdown leaves the memoized outcome of init as
\* it is, so is_initialized answers as before and a call on an initialized
\* handle is not rejected with NotInitialized: with an existing script path
\* it goes on, unless a hook panics first, to php_request_startup on the
\* engine that was shut down.  The engine is never started a second time.
C35_ShutdownKeepsInitResult ==
    /\ [][engine'.shutdowns # engine.shutdowns
            => PHP_INIT_RESULT' = PHP_INIT_RESULT]_vars
    /\ [](engine.startups <= 1)
    /\ []((engine.shutdowns > 0 /\ PHP_INIT_RESULT = "ok" /\ pc # "idle") =>
            /\ outcome # "NotInitialized"
            /\ (/\ call.path = "valid"
                /\ pc \notin {"on_context_created", "on_request_starting"}
                /\ outcome # "panicked")
                  => Calls(trace, "php_request_startup"))

C35_Witness ==
    /\ engine.shutdowns = 1
    /\ engine.startups = 1
    /\ PHP_INIT_RESULT = "ok"
    /\ Returned("Ok")
    /\ Calls(trace, "php_request_startup")

\* C36: when threads call execute at the same time, each on a handle of its
\* own, the requests do not overlap on the slot: a callback made for one
\* request never takes another request's context from the slot, and while
\* one request is between its install and its clear no other request
\* writes the slot.
C36_NoOverlapOnSlot ==
    /\ [](\A t \in Threads :
            threads[t].pc = "called_back" => threads[t].got = t)
    /\ [][\A t \in Threads :
            (InFlight(t) /\ threads'[t] = threads[t])
               => sapi_globals'.server_context = sapi_globals.server_context]_vars

\* ---------------------------------------------------------------------
\* Output buffer growth (server_context.rs): buffer_policy and the three
\* Growth arms of write_output, on buffers of realistic sizes.  The bytes
\* of a buffer are kept as runs [byte, n] of n equal bytes.
\* ---------------------------------------------------------------------
MaxWrites == 3

MIN_BUFFER_SIZE == 4096
FIXED_STEP == 32 * 1024

\* values of SAPI_INIT_BUF after parse::<usize>(): -1 stands for a variable
\* that is unset or does not parse
InitBufValues == {-1, 100, 4096, 131072}
\* values of SAPI_BUF_GROWTH
GrowthValues == {"unset", "x2", "X2", "fixed32k", "x4"}
\* lengths of the slices handed to write_output
WriteSizes == {0, 1, 4096, 70000, 200000, 300000}
RunBytes == {1, 2}

\* buffer_policy: the policy the process memoizes on first use
buffer_policy(init_buf, growth) ==
    [initial_cap |-> IF init_buf >= MIN_BUFFER_SIZE THEN init_buf
                     ELSE DEFAULT_BUFFER_SIZE,
     strategy    |-> CASE growth \in {"x2", "X2"} -> "X2"
                       [] growth = "fixed32k" -> "Fixed"
                       [] OTHER -> "X4"]

BufferPolicies ==
    {buffer_policy(i, g) : i \in InitBufValues, g \in GrowthValues}

\* Growth::Fixed arm: add the step until the capacity fits
RECURSIVE GrowFixed(_, _, _)
GrowFixed(cap, required, step) ==
    IF cap < required THEN GrowFixed(cap + step, required, step) ELSE cap

\* new_cap of write_output with the multiplying arms alone, without the
\* required + initial_cap alternative
Growth_new_cap_no_headroom(policy, actual, required) ==
    CASE policy.strategy = "X4" -> actual * 4
      [] policy.strategy = "X2" -> actual * 2
      [] OTHER -> GrowFixed(actual, required, FIXED_STEP)

\* new_cap of write_output: the match over policy.strategy (the lengths
\* modelled stay far below usize::MAX, so no product saturates)
Growth_new_cap(policy, actual, required) ==
    LET b == required + policy.initial_cap
    IN  CASE policy.strategy = "X4" ->
               IF actual * 4 >= b THEN actual * 4 ELSE b
          [] policy.strategy = "X2" ->
               IF actual * 2 >= b THEN actual * 2 ELSE b
          [] OTHER -> GrowFixed(actual, required, FIXED_STEP)

\* Vec::reserve(additional) as write_output calls it: the capacity is at
\* least len + additional afterwards; the vector either takes exactly that
\* or, growing amortized, twice its old capacity when that is more
Vec_reserve(cap, len, additional, exact) ==
    IF cap - len >= additional THEN cap
    ELSE IF exact \/ len + additional >= cap * 2 THEN len + additional
         ELSE cap * 2

RECURSIVE RunsLen(_)
RunsLen(runs) ==
    IF runs = << >> THEN 0 ELSE Head(runs).n + RunsLen(Tail(runs))

\* ServerContext::write_output on a buffer kept as runs, under a policy:
\* the context afterwards, the returned length and the new_cap computed
\* (the old capacity when the write fits)
write_output_sized(policy, ctx, data, exact) ==
    IF ctx.output_callback
    THEN [ctx |-> ctx, ret |-> data.n, new_cap |-> ctx.capacity]
    ELSE LET actual   == ctx.capacity
             len      == RunsLen(ctx.output_buffer)
             required == len + data.n
             new_cap  == IF required > actual
                         THEN Growth_new_cap(policy, actual, required)
                         ELSE actual
             cap      == IF required > actual
                         THEN Vec_reserve(actual, len, new_cap - len, exact)
                         ELSE actual
         IN  [ctx |-> [ctx EXCEPT !.capacity = cap,
                                  !.output_buffer = Append(@, data)],
              ret |-> data.n, new_cap |-> new_cap]

\* a process whose policy is drawn from the environment, with a fresh
\* context whose buffer has the policy's initial capacity
InitBuffer ==
    /\ threads = [t \in Threads |-> NoThread]
    /\ PHP_INIT_RESULT = "unset"
    /\ sapi_globals = NoGlobals
    /\ \E policy \in BufferPolicies, cb \in BOOLEAN :
         /\ engine = [NoEngine EXCEPT !.buffer_policy = policy]
         /\ server_ctx = [ServerContext_from(NoRequest) EXCEPT
                            !.capacity = policy.initial_cap,
                            !.output_callback = cb]
    /\ heap = {}
    /\ pc = "buffer"
    /\ call = NoCall
    /\ trace = << >>
    /\ chunks = << >>
    /\ writes = << >>
    /\ twin = ServerContext_from(NoRequest)
    /\ slot_writes = 0
    /\ outcome = "none"
    /\ result = NoResult
    /\ nreq = 0

\* one call of write_output; `writes` logs what the call found and computed
BufferWrite ==
    /\ pc = "buffer"
    /\ Len(writes) < MaxWrites
    /\ \E n \in WriteSizes, b \in RunBytes, exact \in BOOLEAN :
         LET w == write_output_sized(engine.buffer_policy, server_ctx,
                                     [byte |-> b, n |-> n], exact)
         IN  /\ server_ctx' = w.ctx
             /\ writes' = Append(writes,
                    [actual  |-> server_ctx.capacity,
                     len     |-> RunsLen(server_ctx.output_buffer),
                     n       |-> n,
                     ret     |-> w.ret,
                     new_cap |-> w.new_cap,
                     cap     |-> w.ctx.capacity])
    /\ UNCHANGED <<threads, PHP_INIT_RESULT, sapi_globals, engine, heap, pc,
                   call, trace, chunks, twin, slot_writes, outcome, result,
                   nreq>>

NextBuffer == BufferWrite
SpecBuffer == InitBuffer /\ [][NextBuffer]_vars

\* the smallest capacity reached from `actual` by steps of the strategy
\* (times 4, times 2, plus 32 KiB) that fits `required`
RECURSIVE SmallestStep(_, _, _)
SmallestStep(strategy, actual, required) ==
    LET next == CASE strategy = "X4" -> actual * 4
                  [] strategy = "X2" -> actual * 2
                  [] OTHER -> actual + FIXED_STEP
    IN  IF next >= required THEN next
        ELSE SmallestStep(strategy, next, required)

Grew(w) == w.len + w.n > w.actual
Buffered == ~server_ctx.output_callback

\* C37 (as stated): a buffered write that exceeds the capacity asks for the
\* smallest capacity the strategy reaches from the current one that fits
\* length plus the pending write.
C37_SmallestCapacity ==
    Buffered =>
      \A i \in 1..Len(writes) :
        Grew(writes[i]) =>
          writes[i].new_cap = SmallestStep(engine.buffer_policy.strategy,
                                       writes[i].actual,
                                       writes[i].len + writes[i].n)

\* C37: a buffered write that exceeds the capacity asks for
\* max(capacity * 4, length + pending + initial capacity) under x4, the same
\* with 2 under x2, and the smallest capacity + k * 32 KiB that fits under
\* fixed32k; the buffer's capacity is at least that afterwards. A write
\* that fits leaves the capacity alone. After every write capacity >=
\* length, the write is appended whole and the bytes written before it are
\* unchanged.
C37_GrowthFits ==
    /\ [](Buffered =>
            /\ server_ctx.capacity >= RunsLen(server_ctx.output_buffer)
            /\ \A i \in 1..Len(writes) :
                 LET w == writes[i]
                     p == engine.buffer_policy
                     required == w.len + w.n
                 IN  /\ w.ret = w.n
                     /\ ~Grew(w) => w.cap = w.actual
                     /\ Grew(w) =>
                          /\ w.cap >= w.new_cap
                          /\ w.new_cap >= required
                          /\ p.strategy = "X4" =>
                               /\ w.new_cap >= w.actual * 4
                               /\ w.new_cap >= required + p.initial_cap
                               /\ w.new_cap \in {w.actual * 4,
                                                 required + p.initial_cap}
                          /\ p.strategy = "X2" =>
                               /\ w.new_cap >= w.actual * 2
                               /\ w.new_cap >= required + p.initial_cap
                               /\ w.new_cap \in {w.actual * 2,
                                                 required + p.initial_cap}
                          /\ p.strategy = "Fixed" =>
                               /\ (w.new_cap - w.actual) % FIXED_STEP = 0
                               /\ w.new_cap - FIXED_STEP < required)
    /\ [][(Buffered /\ writes' # writes) =>
            /\ Len(server_ctx'.output_buffer)
                 = Len(server_ctx.output_buffer) + 1
            /\ SubSeq(server_ctx'.output_buffer, 1,
                      Len(server_ctx.output_buffer))
                 = server_ctx.output_buffer
            /\ RunsLen(server_ctx'.output_buffer)
                 = RunsLen(server_ctx.output_buffer)
                     + writes'[Len(writes')].n]_vars

\* a write of 200000 bytes into the default 64 KiB buffer under x4 asks for
\* 265536 bytes, more than the 262144 a single multiplication gives
C37_Witness ==
    /\ Buffered
    /\ engine.buffer_policy = [initial_cap |-> DEFAULT_BUFFER_SIZE,
                               strategy |-> "X4"]
    /\ Len(writes) = 2
    /\ writes[1].n = 1
    /\ Grew(writes[2])
    /\ writes[2].n = 200000
    /\ writes[2].new_cap = 265537
    /\ server_ctx.output_buffer[1].byte # server_ctx.output_buffer[2].byte

C37_WitnessFixed ==
    /\ Buffered
    /\ engine.buffer_policy.strategy = "Fixed"
    /\ Len(writes) >= 1
    /\ Grew(writes[Len(writes)])
    /\ writes[Len(writes)].new_cap = writes[Len(writes)].actual + 2 * FIXED_STEP

\* ---------------------------------------------------------------------
\* Syslog levels (execution/message.rs): from_raw and the two severity
\* tests, applied to raw levels over the whole range of an i32.
\* ---------------------------------------------------------------------
MaxRaw == 3
MaxLogged == 2

I32_MAX == 2147483647
I32_MIN == (-I32_MAX) - 1

\* the syslog_type values the engine may hand over: the eight levels,
\* MaxRaw values on either side of them and the ends of the i32 range
RawLevels == ((0 - MaxRaw)..(7 + MaxRaw)) \cup {I32_MIN, I32_MAX}

\* the discriminant of a level (level as i32)
SyslogLevel_as_i32(level) ==
    CASE level = "emerg" -> 0
      [] level = "alert" -> 1
      [] level = "crit" -> 2
      [] level = "err" -> 3
      [] level = "warning" -> 4
      [] level = "notice" -> 5
      [] level = "info" -> 6
      [] level = "debug" -> 7

SyslogLevel_is_error_or_worse(level) ==
    level \in {"emerg", "alert", "crit", "err"}

SyslogLevel_is_warning_or_worse(level) ==
    SyslogLevel_is_error_or_worse(level) \/ level = "warning"

\* ExecutionMessage::is_error and ExecutionMessage::is_warning_or_worse
ExecutionMessage_is_error(m) == SyslogLevel_is_error_or_worse(m.level)
ExecutionMessage_is_warning_or_worse(m) ==
    SyslogLevel_is_warning_or_worse(m.level)

\* a context that is about to collect log messages
InitLevel ==
    /\ threads = [t \in Threads |-> NoThread]
    /\ PHP_INIT_RESULT = "unset"
    /\ sapi_globals = NoGlobals
    /\ engine = NoEngine
    /\ heap = {}
    /\ server_ctx = ServerContext_from(NoRequest)
    /\ pc = "levels"
    /\ call = NoCall
    /\ trace = << >>
    /\ chunks = << >>
    /\ writes = << >>
    /\ twin = ServerContext_from(NoRequest)
    /\ slot_writes = 0
    /\ outcome = "none"
    /\ result = NoResult
    /\ nreq = 0

\* the engine logs a message with a raw level: the context stores
\* ExecutionMessage::from_syslog of it; `writes` keeps the raw level and the
\* answers of the message's severity tests
LevelLogged ==
    /\ pc = "levels"
    /\ Len(writes) < MaxLogged
    /\ \E syslog_type \in RawLevels :
         LET m == ExecutionMessage_from_syslog(syslog_type, "msg")
         IN  /\ server_ctx' = add_message(server_ctx, m)
             /\ writes' = Append(writes,
                    [raw |-> syslog_type,
                     is_error |-> ExecutionMessage_is_error(m),
                     is_warning_or_worse |->
                         ExecutionMessage_is_warning_or_worse(m)])
    /\ UNCHANGED <<threads, PHP_INIT_RESULT, sapi_globals, engine, heap, pc,
                   call, trace, chunks, twin, slot_writes, outcome, result,
                   nreq>>

NextLevel == LevelLogged
SpecLevel == InitLevel /\ [][NextLevel]_vars

LevelNames ==
    <<"emerg", "alert", "crit", "err", "warning", "notice", "info", "debug">>

\* C38: from_raw maps 0..7 to emergency, alert, critical, error, warning,
\* notice, info, debug in that order, every negative value to emergency
\* and every value above 7 to debug; error-or-worse holds exactly for the
\* levels 0..3 and warning-or-worse exactly for the levels 0..4.
C38_LevelMapping ==
    /\ Len(server_ctx.messages) = Len(writes)
    /\ \A i \in 1..Len(writes) :
         LET raw   == writes[i].raw
             level == server_ctx.messages[i].level
             n     == SyslogLevel_as_i32(level)
         IN  /\ level \in {LevelNames[k] : k \in 1..8}
             /\ raw \in 0..7 => level = LevelNames[raw + 1] /\ n = raw
             /\ raw < 0 => level = "emerg" /\ n = 0
             /\ raw > 7 => level = "debug" /\ n = 7
             /\ writes[i].is_error <=> n \in 0..3
             /\ writes[i].is_warning_or_worse <=> n \in 0..4

C38_Witness ==
    /\ pc = "levels"
    /\ Len(writes) = 2
    /\ writes[1].raw = I32_MIN
    /\ server_ctx.messages[1].level = "emerg"
    /\ writes[1].is_error
    /\ writes[2].raw = 4
    /\ server_ctx.messages[2].level = "warning"
    /\ ~writes[2].is_error
    /\ writes[2].is_warning_or_worse

C38_WitnessAbove ==
    /\ pc = "levels"
    /\ Len(writes) = 1
    /\ writes[1].raw = I32_MAX
    /\ server_ctx.messages[1].level = "debug"
    /\ ~writes[1].is_warning_or_worse

\* ---------------------------------------------------------------------
\* ServerVars::http_header (sapi/server_vars.rs).  A string is the
\* sequence of its characters.
\* ---------------------------------------------------------------------
MaxHeaderCalls == 2

LowerLetters == <<"a", "b", "c", "d", "e", "f", "g", "h", "i", "j", "k", "l", "m", "n", "o", "p", "q", "r", "s", "t", "u", "v", "w", "x", "y", "z">>
UpperLetters == <<"A", "B", "C", "D", "E", "F", "G", "H", "I", "J", "K", "L", "M", "N", "O", "P", "Q", "R", "S", "T", "U", "V", "W", "X", "Y", "Z">>

\* char::to_uppercase: a letter to its capital, the sharp s to two letters,
\* anything else to itself
char_to_uppercase(c) ==
    IF \E i \in 1..Len(LowerLetters) : LowerLetters[i] = c
    THEN <<UpperLetters[CHOOSE i \in 1..Len(LowerLetters) : LowerLetters[i] = c]>>
    ELSE IF c = "ß" THEN <<"S", "S">>
    ELSE <<c>>

RECURSIVE to_uppercase(_)
to_uppercase(str) ==
    IF str = << >> THEN << >>
    ELSE char_to_uppercase(Head(str)) \o to_uppercase(Tail(str))

\* str.replace('-', "_")
replace_hyphens(str) ==
    [i \in 1..Len(str) |-> IF str[i] = "-" THEN "_" ELSE str[i]]

CONTENT_TYPE == <<"C", "O", "N", "T", "E", "N", "T", "_", "T", "Y", "P", "E">>
CONTENT_LENGTH == <<"C", "O", "N", "T", "E", "N", "T", "_", "L", "E", "N", "G", "T", "H">>
HTTP_COOKIE == <<"H", "T", "T", "P", "_", "C", "O", "O", "K", "I", "E">>
HTTP_PREFIX == <<"H", "T", "T", "P", "_">>

\* ServerVars::new
ServerVars_new ==
    [vars |-> << >>, cookie |-> << >>, content_type |-> << >>]

\* ServerVars::set with track_special (the query string and the request
\* method are never the key of a header)
ServerVars_set(sv, key, value) ==
    [vars         |-> Append(sv.vars, [k |-> key, v |-> value]),
     cookie       |-> IF key = HTTP_COOKIE THEN <<value>> ELSE sv.cookie,
     content_type |-> IF key = CONTENT_TYPE THEN <<value>>
                      ELSE sv.content_type]

\* ServerVars::http_header
ServerVars_http_header(sv, name, value) ==
    LET upper == replace_hyphens(to_uppercase(name))
    IN  IF upper = CONTENT_TYPE THEN ServerVars_set(sv, CONTENT_TYPE, value)
        ELSE IF upper = CONTENT_LENGTH
             THEN ServerVars_set(sv, CONTENT_LENGTH, value)
        ELSE ServerVars_set(sv, HTTP_PREFIX \o upper, value)

\* header names a caller passes
HttpHeaderNames ==
    {<<"C", "o", "n", "t", "e", "n", "t", "-", "T", "y", "p", "e">>,
     <<"c", "o", "n", "t", "e", "n", "t", "-", "t", "y", "p", "e">>,
     <<"C", "O", "N", "T", "E", "N", "T", "-", "T", "Y", "P", "E">>,
     <<"C", "o", "n", "t", "e", "n", "t", "_", "T", "y", "p", "e">>,
     <<"C", "o", "n", "t", "e", "n", "t", "-", "L", "e", "n", "g", "t", "h">>,
     <<"c", "O", "n", "T", "e", "N", "t", "-", "L", "e", "N", "g", "T", "h">>,
     <<"c", "o", "n", "t", "e", "n", "t", "_", "l", "e", "n", "g", "t", "h">>,
     <<"X", "-", "C", "u", "s", "t", "o", "m", "-", "H", "e", "a", "d", "e", "r">>,
     <<"A", "c", "c", "e", "p", "t", "-", "E", "n", "c", "o", "d", "i", "n", "g">>,
     <<"C", "o", "o", "k", "i", "e">>,
     <<"X", "-", "C", "o", "n", "t", "e", "n", "t", "-", "T", "y", "p", "e">>,
     <<"S", "t", "r", "a", "ß", "e">>}
HttpHeaderValues == {"1", "2"}

\* a request builder that is about to receive its headers; the ServerVars
\* under construction are the request's vars
InitVars ==
    /\ threads = [t \in Threads |-> NoThread]
    /\ PHP_INIT_RESULT = "unset"
    /\ sapi_globals = NoGlobals
    /\ engine = NoEngine
    /\ heap = {}
    /\ server_ctx = ServerContext_from(NoRequest)
    /\ pc = "vars"
    /\ call = [NoCall EXCEPT !.req.has_vars = TRUE,
                             !.req.vars = ServerVars_new]
    /\ trace = << >>
    /\ chunks = << >>
    /\ writes = << >>
    /\ twin = ServerContext_from(NoRequest)
    /\ slot_writes = 0
    /\ outcome = "none"
    /\ result = NoResult
    /\ nreq = 0

\* one call of http_header; `writes` keeps the arguments of the calls
HttpHeaderCalled ==
    /\ pc = "vars"
    /\ Len(writes) < MaxHeaderCalls
    /\ \E name \in HttpHeaderNames, value \in HttpHeaderValues :
         /\ call' = [call EXCEPT !.req.vars =
                        ServerVars_http_header(@, name, value)]
         /\ writes' = Append(writes, [name |-> name, value |-> value])
    /\ UNCHANGED <<threads, PHP_INIT_RESULT, sapi_globals, engine, heap,
                   server_ctx, pc, trace, chunks, twin, slot_writes, outcome,
                   result, nreq>>

NextVars == HttpHeaderCalled
SpecVars == InitVars /\ [][NextVars]_vars

ContentTypeName == <<"C", "o", "n", "t", "e", "n", "t", "-", "T", "y", "p", "e">>
ContentLengthName == <<"C", "o", "n", "t", "e", "n", "t", "-", "L", "e", "n", "g", "t", "h">>

\* the same name in another letter case: equal length, and at each place
\* the same character once both are upper-cased
SameIgnoringCase(a, b) ==
    /\ Len(a) = Len(b)
    /\ \A i \in 1..Len(a) : char_to_uppercase(a[i]) = char_to_uppercase(b[i])

PairsKept ==
    /\ Len(call.req.vars.vars) = Len(writes)
    /\ \A i \in 1..Len(writes) : call.req.vars.vars[i].v = writes[i].value

\* the keys test_http_header_transformation expects
ExpectedKeys ==
    \A i \in 1..Len(writes) :
        LET key == call.req.vars.vars[i].k
        IN  /\ writes[i].name = <<"C", "o", "n", "t", "e", "n", "t", "-", "T", "y", "p", "e">> => key = <<"C", "O", "N", "T", "E", "N", "T", "_", "T", "Y", "P", "E">>
            /\ writes[i].name = <<"C", "o", "n", "t", "e", "n", "t", "-", "L", "e", "n", "g", "t", "h">> => key = <<"C", "O", "N", "T", "E", "N", "T", "_", "L", "E", "N", "G", "T", "H">>
            /\ writes[i].name = <<"X", "-", "C", "u", "s", "t", "o", "m", "-", "H", "e", "a", "d", "e", "r">> => key = <<"H", "T", "T", "P", "_", "X", "_", "C", "U", "S", "T", "O", "M", "_", "H", "E", "A", "D", "E", "R">>
            /\ writes[i].name = <<"A", "c", "c", "e", "p", "t", "-", "E", "n", "c", "o", "d", "i", "n", "g">> => key = <<"H", "T", "T", "P", "_", "A", "C", "C", "E", "P", "T", "_", "E", "N", "C", "O", "D", "I", "N", "G">>

\* C39: http_header upper-cases the name and puts an underscore for every
\* hyphen; the pair is stored under HTTP_<NAME>, except that Content-Type
\* and Content-Length, in any letter case, are stored as CONTENT_TYPE and
\* CONTENT_LENGTH; every call appends one pair, in call order.
C39_HeaderMapping ==
    /\ pc = "vars" => PairsKept /\ ExpectedKeys
    /\ pc = "vars" =>
         \A i \in 1..Len(writes) :
            LET name == writes[i].name
                key  == call.req.vars.vars[i].k
            IN  IF SameIgnoringCase(name, ContentTypeName)
                THEN key = CONTENT_TYPE
                ELSE IF SameIgnoringCase(name, ContentLengthName)
                THEN key = CONTENT_LENGTH
                ELSE key = HTTP_PREFIX \o replace_hyphens(to_uppercase(name))

\* what holds instead: the prefix is left out exactly when the mapped name
\* is CONTENT_TYPE or CONTENT_LENGTH, which names written with an
\* underscore reach as well
C39_MappedNameDecides ==
    pc = "vars" =>
      /\ PairsKept
      /\ ExpectedKeys
      /\ \A i \in 1..Len(writes) :
            LET upper == replace_hyphens(to_uppercase(writes[i].name))
                key   == call.req.vars.vars[i].k
            IN  /\ upper \in {CONTENT_TYPE, CONTENT_LENGTH} => key = upper
                /\ upper \notin {CONTENT_TYPE, CONTENT_LENGTH}
                     => key = HTTP_PREFIX \o upper

\* a header named Content_Type has been stored as CONTENT_TYPE
C39_UnderscoreName ==
    /\ pc = "vars"
    /\ Len(writes) = 1
    /\ writes[1].name = <<"C", "o", "n", "t", "e", "n", "t", "_", "T", "y", "p", "e">>
    /\ call.req.vars.vars[1].k = CONTENT_TYPE
    /\ call.req.vars.content_type = <<writes[1].value>>

====
